---- MODULE Spec2Model ----
(***************************************************************************)
(* Windows route manager core of talpid-core: the managed-route store, the *)
(* callback registry and the default-route event path of                   *)
(* routing/windows/route_manager.rs, with the facade of                    *)
(* routing/windows/mod.rs, against a model of the OS forwarding table.     *)
(***************************************************************************)
EXTENDS Integers, Sequences, FiniteSets, TLC

\* ------------------------------------------------------------------ bounds

\* Routes one add_routes call may carry.
MaxBatch == 3
\* Calls into the facade (add_routes, clear_routes, add_default_route_change_callback)
\* and changes of the OS default routes over a run, taken together.
MaxOps == 3
\* OS forwarding-table calls that end in an unexpected error over a run.
MaxOsFaults == 1

\* ------------------------------------------------------------------ universe

Families == {"v4", "v6"}
Users == {"u1"}


\* AddressFamily of a prefix (IpNetwork::is_ipv4).
ipnetwork_to_address_family(network) ==
    IF network \in {"n4a", "n4b"} THEN "v4" ELSE "v6"

\* The family's unspecified address: the on-link next hop.
Unspecified(family) == IF family = "v4" THEN "0.0.0.0" ELSE "::"

\* Option::None of InterfaceAndGateway.
NoBest == [iface |-> 0, gateway |-> "none"]

\* The best default routes the OS may report for a family.
BestChoices(family) ==
    IF family = "v4"
    THEN {[iface |-> 1, gateway |-> "g4a"], [iface |-> 2, gateway |-> "g4b"]}
    ELSE {[iface |-> 1, gateway |-> "g6a"]}

\* A device name is a tuple of characters; no device name is the empty tuple.
NoDevice == <<>>
DevEth1 == <<"e", "t", "h", "1">>
DevNone == <<"n", "o", "d", "e", "v">>

\* NetNode values.
DefaultNode == [kind |-> "DefaultNode", device |-> NoDevice, address |-> "none"]
RealNode(device, address) == [kind |-> "RealNode", device |-> device, address |-> address]

\* The route declarations callers pass in.
Routes ==
    { [network |-> "n4a", node |-> DefaultNode],
      [network |-> "n6a", node |-> DefaultNode],
      [network |-> "n4b", node |-> RealNode(DevEth1, "g4a")],
      [network |-> "n4b", node |-> RealNode(NoDevice, "g4a")],
      [network |-> "n4b", node |-> RealNode(DevNone, "none")] }

\* The adapters GetAdaptersAddresses lists, in the OS order, each with the list of
\* its gateways.
OsAdapters ==
    << [Luid |-> 2, gateways |-> <<"g4b", "g4a">>, Ipv4Enabled |-> TRUE, Ipv6Enabled |-> FALSE,
        Ipv4Metric |-> 25, Ipv6Metric |-> 25],
       [Luid |-> 1, gateways |-> <<"g6a", "g4a">>, Ipv4Enabled |-> TRUE, Ipv6Enabled |-> TRUE,
        Ipv4Metric |-> 10, Ipv6Metric |-> 10] >>

GatewayFamily(gateway) == IF gateway \in {"g4a", "g4b", "0.0.0.0"} THEN "v4" ELSE "v6"

\* ------------------------------------------------------------------ results

Ok == [kind |-> "Ok", code |-> "NO_ERROR"]
Err(kind, code) == [kind |-> kind, code |-> code]
IsOk(result) == result.kind = "Ok"

NoRoute == [network |-> "none", luid |-> 0, next_hop |-> "none"]

\* An equality that looks at the interface and the prefix only.
eq_without_next_hop(a, b) ==
    a.luid = b.luid /\ a.network = b.network

\* RegisteredRoute equality: luid, next hop and network.
RegisteredRouteEq(a, b) ==
    a.luid = b.luid /\ a.next_hop = b.next_hop /\ a.network = b.network

\* ------------------------------------------------------------------ OS forwarding table

InTable(tbl, rr) == \E e \in tbl : e.rr = rr

\* CreateIpForwardEntry2: `fault` is the OS refusing the call for a reason of its own.
CreateIpForwardEntry2(tbl, rr, fault) ==
    IF fault THEN [status |-> "ERROR_ACCESS_DENIED", table |-> tbl]
    ELSE IF InTable(tbl, rr) THEN [status |-> "ERROR_OBJECT_ALREADY_EXISTS", table |-> tbl]
    ELSE [status |-> "NO_ERROR", table |-> tbl \cup {[rr |-> rr, tag |-> "mgr"]}]

\* SetIpForwardEntry2: overwrites the properties of an existing entry.
SetIpForwardEntry2(tbl, rr, fault) ==
    IF fault THEN [status |-> "ERROR_ACCESS_DENIED", table |-> tbl]
    ELSE IF ~InTable(tbl, rr) THEN [status |-> "ERROR_NOT_FOUND", table |-> tbl]
    ELSE [status |-> "NO_ERROR",
          table |-> {e \in tbl : e.rr # rr} \cup {[rr |-> rr, tag |-> "mgr"]}]

\* DeleteIpForwardEntry2.
DeleteIpForwardEntry2(tbl, rr, fault) ==
    IF fault THEN [status |-> "ERROR_ACCESS_DENIED", table |-> tbl]
    ELSE IF ~InTable(tbl, rr) THEN [status |-> "ERROR_NOT_FOUND", table |-> tbl]
    ELSE [status |-> "NO_ERROR", table |-> {e \in tbl : e.rr # rr}]

\* ------------------------------------------------------------------ resolving a node

STRING_ENCODED_LUID_LENGTH == 17

HexDigits == <<"0", "1", "2", "3", "4", "5", "6", "7", "8", "9", "a", "b", "c", "d", "e", "f">>
UpperHexDigits == <<"0", "1", "2", "3", "4", "5", "6", "7", "8", "9", "A", "B", "C", "D", "E", "F">>

\* ConvertInterfaceAliasToLuid: 0 stands for a status other than NO_ERROR.
ConvertInterfaceAliasToLuid(device_name) ==
    IF device_name = DevEth1 THEN 1 ELSE 0

adapter_interface_enabled(adapter, family) ==
    IF family = "v4" THEN adapter.Ipv4Enabled ELSE adapter.Ipv6Enabled

AdapterMetric(adapter, family) ==
    IF family = "v4" THEN adapter.Ipv4Metric ELSE adapter.Ipv6Metric

\* Vec::sort_by on the family's metric: a stable insertion of `a` into sorted `s`.
RECURSIVE InsertByMetric(_, _, _)
InsertByMetric(a, s, family) ==
    IF s = <<>> THEN <<a>>
    ELSE IF AdapterMetric(Head(s), family) <= AdapterMetric(a, family)
         THEN <<Head(s)>> \o InsertByMetric(a, Tail(s), family)
         ELSE <<a>> \o s

RECURSIVE SortByMetric(_, _)
SortByMetric(s, family) ==
    IF s = <<>> THEN <<>>
    ELSE InsertByMetric(s[Len(s)], SortByMetric(SubSeq(s, 1, Len(s) - 1), family), family)

\* The value of a hexadecimal digit, -1 for any other character.
HexValue(c) ==
    IF \E i \in 1..16 : HexDigits[i] = c \/ UpperHexDigits[i] = c
    THEN (CHOOSE i \in 1..16 : HexDigits[i] = c \/ UpperHexDigits[i] = c) - 1
    ELSE -1

\* A u64 is kept as its 16 hexadecimal digits (values 0..15), the most significant
\* first, so that it has the width of the type.
U64Zero == [i \in 1..(STRING_ENCODED_LUID_LENGTH - 1) |-> 0]

\* The checked acc * 16 + digit of from_str_radix, over the digits left to read.
RECURSIVE HexFold(_, _)
HexFold(digits, acc) ==
    IF digits = <<>> THEN [ok |-> TRUE, value |-> acc]
    ELSE IF HexValue(Head(digits)) < 0 \/ Head(acc) # 0 THEN [ok |-> FALSE, value |-> U64Zero]
    ELSE HexFold(Tail(digits), Append(Tail(acc), HexValue(Head(digits))))

\* The digits that from_str_radix reads: the string without a leading "+".
unsigned_digits(src) == IF src # <<>> /\ Head(src) = "+" THEN Tail(src) ELSE src

\* u64::from_str_radix(src, 16)
from_str_radix(src) ==
    IF unsigned_digits(src) = <<>> THEN [ok |-> FALSE, value |-> U64Zero]
    ELSE HexFold(unsigned_digits(src), U64Zero)

\* The part of parse_string_encoded_luid after the check of length and prefix.
luid_from_digits(parsed) ==
    IF ~parsed.ok
    THEN [result |-> Err("Conversion", "NO_ERROR"), some |-> FALSE, luid |-> 0]
    ELSE [result |-> Ok, some |-> TRUE, luid |-> parsed.value]

parse_string_encoded_luid(encoded_luid) ==
    IF Len(encoded_luid) # STRING_ENCODED_LUID_LENGTH \/ encoded_luid[1] # "?"
    THEN [result |-> Ok, some |-> FALSE, luid |-> 0]
    ELSE luid_from_digits(from_str_radix(Tail(encoded_luid)))

\* Adapters::new on the status of GetAdaptersAddresses and the list it fills in.
adapters_new(status, adapters) ==
    IF status = "ERROR_SUCCESS" THEN [result |-> Ok, buffer |-> adapters]
    ELSE IF status = "ERROR_NO_DATA" THEN [result |-> Ok, buffer |-> <<>>]
    ELSE [result |-> Err("Adapter", "NO_ERROR"), buffer |-> <<>>]

\* isolate_gateway_address copies each element of the gateway list into a local of
\* the loop body and returns, for the elements of the family, pointers to the
\* Address of that local, which is dead when address_present reads them. A read
\* finds the element copied last, or what was written over it since.
PointerReads == {"last_copied", "overwritten"}

\* The elements of the gateway list isolate_gateway_address returns a pointer for.
isolate_gateway_address(gateways, family) ==
    LET OfFamily(g) == GatewayFamily(g) = family
    IN  SelectSeq(gateways, OfFamily)

\* What address_present finds behind the pointers of isolate_gateway_address.
pointed_addresses(gateways, family, reads) ==
    [i \in 1..Len(isolate_gateway_address(gateways, family)) |->
        IF reads = "last_copied" THEN gateways[Len(gateways)] ELSE "overwritten"]

equal_address(lhs, rhs) ==
    GatewayFamily(lhs) = GatewayFamily(rhs) /\ lhs = rhs

address_present(hay, needle) ==
    \E i \in 1..Len(hay) : equal_address(needle, hay[i])

interface_luid_from_gateway(gateway, adapters, reads) ==
    LET family == GatewayFamily(gateway)
        Matches(a) == /\ adapter_interface_enabled(a, family)
                      /\ address_present(pointed_addresses(a.gateways, family, reads), gateway)
        matches == SelectSeq(adapters.buffer, Matches)
    IN  IF ~IsOk(adapters.result)
        THEN [result |-> adapters.result, luid |-> 0]
        ELSE IF matches = <<>>
        THEN [result |-> Err("DeviceGatewayNotFound", "NO_ERROR"), luid |-> 0]
        ELSE [result |-> Ok, luid |-> SortByMetric(matches, family)[1].Luid]

\* resolve_node for a node that names a device: `parsed` is the device read as an
\* encoded LUID and `alias` the LUID the OS gives for the device as an alias.
resolve_device_node(family, optional_node, parsed, alias) ==
    LET gateway == IF optional_node.address # "none" THEN optional_node.address
                   ELSE Unspecified(family)
    IN  IF ~IsOk(parsed.result)
        THEN [result |-> parsed.result, iface |-> 0, gateway |-> "none"]
        ELSE IF parsed.some
        THEN [result |-> Ok, iface |-> parsed.luid, gateway |-> gateway]
        ELSE IF alias = 0
        THEN [result |-> Err("DeviceNameNotFound", "NO_ERROR"), iface |-> 0, gateway |-> "none"]
        ELSE [result |-> Ok, iface |-> alias, gateway |-> gateway]

\* resolve_node for a node that names only a gateway: `found` is the interface of the gateway.
resolve_gateway_node(optional_node, found) ==
    IF ~IsOk(found.result)
    THEN [result |-> found.result, iface |-> 0, gateway |-> "none"]
    ELSE [result |-> Ok, iface |-> found.luid, gateway |-> optional_node.address]

resolve_node(family, optional_node, best_default, reads) ==
    IF optional_node.kind = "DefaultNode"
    THEN IF best_default = NoBest
         THEN [result |-> Err("NoDefaultRoute", "NO_ERROR"), iface |-> 0, gateway |-> "none"]
         ELSE [result |-> Ok, iface |-> best_default.iface, gateway |-> best_default.gateway]
    ELSE IF optional_node.device # NoDevice
    THEN resolve_device_node(family, optional_node,
                             parse_string_encoded_luid(optional_node.device),
                             ConvertInterfaceAliasToLuid(optional_node.device))
    ELSE resolve_gateway_node(optional_node,
                              interface_luid_from_gateway(optional_node.address,
                                                          adapters_new("ERROR_SUCCESS",
                                                                       OsAdapters),
                                                          reads))

\* ------------------------------------------------------------------ the store's table calls

\* Each returns the Result, the table after the call and how many OS calls faulted.

\* A write that takes the status of the create as final.
write_without_overwrite(network, node, tbl, create_fault, set_fault) ==
    IF ~IsOk(node.result)
    THEN [result |-> node.result, registered_route |-> NoRoute, table |-> tbl, faults |-> 0]
    ELSE IF CreateIpForwardEntry2(tbl, [network |-> network, luid |-> node.iface,
                                        next_hop |-> node.gateway], create_fault).status
            # "NO_ERROR"
    THEN [result |-> Err("AddToRouteTable",
                         CreateIpForwardEntry2(tbl, [network |-> network, luid |-> node.iface,
                                                     next_hop |-> node.gateway],
                                               create_fault).status),
          registered_route |-> NoRoute, table |-> tbl,
          faults |-> IF create_fault THEN 1 ELSE 0]
    ELSE [result |-> Ok,
          registered_route |-> [network |-> network, luid |-> node.iface,
                                next_hop |-> node.gateway],
          table |-> CreateIpForwardEntry2(tbl, [network |-> network, luid |-> node.iface,
                                                next_hop |-> node.gateway],
                                          create_fault).table,
          faults |-> 0]

\* add_into_routing_table once the node is resolved: the row is created, or set if
\* the OS holds it already.
write_resolved_route(network, node, tbl, create_fault, set_fault) ==
    LET spec == [network |-> network, luid |-> node.iface, next_hop |-> node.gateway]
        created == CreateIpForwardEntry2(tbl, spec, create_fault)
        exists == created.status = "ERROR_OBJECT_ALREADY_EXISTS"
        final == IF exists THEN SetIpForwardEntry2(created.table, spec, set_fault)
                 ELSE created
        faults == (IF create_fault THEN 1 ELSE 0) + (IF exists /\ set_fault THEN 1 ELSE 0)
    IN  IF ~IsOk(node.result)
        THEN [result |-> node.result, registered_route |-> NoRoute, table |-> tbl,
              faults |-> 0]
        ELSE IF final.status # "NO_ERROR"
        THEN [result |-> Err("AddToRouteTable", final.status), registered_route |-> NoRoute,
              table |-> final.table, faults |-> faults]
        ELSE [result |-> Ok, registered_route |-> spec, table |-> final.table,
              faults |-> faults]

add_into_routing_table(route, best_default, tbl, create_fault, set_fault, reads) ==
    write_resolved_route(route.network,
                         resolve_node(ipnetwork_to_address_family(route.network), route.node,
                                      best_default, reads),
                         tbl, create_fault, set_fault)

\* A delete for which an entry that is not in the table is an error.
delete_strict(route, tbl, fault) ==
    IF DeleteIpForwardEntry2(tbl, route, fault).status = "NO_ERROR"
    THEN [result |-> Ok, table |-> DeleteIpForwardEntry2(tbl, route, fault).table,
          faults |-> 0]
    ELSE [result |-> Err("DeleteFromRouteTable",
                         DeleteIpForwardEntry2(tbl, route, fault).status),
          table |-> tbl, faults |-> IF fault THEN 1 ELSE 0]

\* delete_from_routing_table that reports success without the delete.
delete_without_call(route, tbl, fault) ==
    [result |-> Ok, table |-> tbl, faults |-> 0]

delete_from_routing_table(route, tbl, fault) ==
    LET deleted == DeleteIpForwardEntry2(tbl, route, fault)
    IN  IF deleted.status \in {"ERROR_NOT_FOUND", "NO_ERROR"}
        THEN [result |-> Ok, table |-> deleted.table, faults |-> 0]
        ELSE [result |-> Err("DeleteFromRouteTable", deleted.status), table |-> deleted.table,
              faults |-> 1]

\* restore_into_routing_table that reports success without the create.
restore_without_create(route, tbl, fault) ==
    [result |-> Ok, table |-> tbl, faults |-> 0]

restore_into_routing_table(route, tbl, fault) ==
    LET created == CreateIpForwardEntry2(tbl, route, fault)
    IN  IF created.status # "NO_ERROR"
        THEN [result |-> Err("AddToRouteTable", created.status), table |-> created.table,
              faults |-> IF fault THEN 1 ELSE 0]
        ELSE [result |-> Ok, table |-> created.table, faults |-> 0]

\* Index of the first record with an equal registered route; 0 stands for None.
find_route_record(recs, route) ==
    IF \E i \in 1..Len(recs) : RegisteredRouteEq(route, recs[i].registered_route)
    THEN CHOOSE i \in 1..Len(recs) :
             /\ RegisteredRouteEq(route, recs[i].registered_route)
             /\ \A j \in 1..(i - 1) : ~RegisteredRouteEq(route, recs[j].registered_route)
    ELSE 0

\* Vec::remove.
RemoveAt(s, idx) == SubSeq(s, 1, idx - 1) \o SubSeq(s, idx + 1, Len(s))

\* ------------------------------------------------------------------ rollback

\* undo_events from entry i of the log down to the first: `faulty` holds the log
\* indices whose OS call faults. `panicked` is the expect() on a record that is absent.
RECURSIVE UndoFrom(_, _, _, _, _, _, _)
UndoFrom(i, event_log, recs, tbl, result, faulty, faults) ==
    IF i = 0
    THEN [panicked |-> FALSE, result |-> result, records |-> recs, table |-> tbl,
          faults |-> faults]
    ELSE LET event == event_log[i]
             record_idx == find_route_record(recs, event.record.registered_route)
             deleted == delete_from_routing_table(recs[record_idx].registered_route, tbl,
                                                  i \in faulty)
             restored == restore_into_routing_table(event.record.registered_route, tbl,
                                                    i \in faulty)
         IN  IF event.event_type = "AddRoute"
             THEN IF record_idx = 0
                  THEN [panicked |-> TRUE, result |-> result, records |-> recs, table |-> tbl,
                        faults |-> faults]
                  ELSE IF ~IsOk(deleted.result)
                  THEN UndoFrom(i - 1, event_log, recs, deleted.table,
                                IF IsOk(result) THEN deleted.result ELSE result,
                                faulty, faults + deleted.faults)
                  ELSE UndoFrom(i - 1, event_log, RemoveAt(recs, record_idx), deleted.table,
                                result, faulty, faults + deleted.faults)
             ELSE IF ~IsOk(restored.result)
                  THEN UndoFrom(i - 1, event_log, recs, restored.table,
                                IF IsOk(result) THEN restored.result ELSE result,
                                faulty, faults + restored.faults)
                  ELSE UndoFrom(i - 1, event_log, Append(recs, event.record), restored.table,
                                result, faulty, faults + restored.faults)

undo_events(event_log, recs, tbl, faulty) ==
    UndoFrom(Len(event_log), event_log, recs, tbl, Ok, faulty, 0)

\* The error add_routes returns when the write of a route failed with `error`
\* and the rollback ended with `undone`.
map_err(error, undone) ==
    IF ~IsOk(undone) THEN undone ELSE error

\* The write of a route failed with `added`: the batch is rolled back (`undone`) and
\* the call returns.
roll_back_batch(added, undone, event_log) ==
    [done |-> TRUE, panicked |-> undone.panicked, error |-> added.result,
     result |-> map_err(added.result, undone.result),
     event_log |-> event_log, records |-> undone.records, table |-> undone.table,
     faults |-> added.faults + undone.faults]

\* A store that pushes every record it is given.
push_record(new_record, existing_record_idx, added, event_log, recs) ==
    [done |-> FALSE, panicked |-> FALSE, error |-> Ok, result |-> Ok,
     event_log |-> Append(event_log, [event_type |-> "AddRoute", record |-> new_record]),
     records |-> Append(recs, new_record),
     table |-> added.table, faults |-> added.faults]

\* The write of a route succeeded with `added`: the event is logged and the record
\* pushed, or written over the record with an equal registered route.
record_route(new_record, existing_record_idx, added, event_log, recs) ==
    [done |-> FALSE, panicked |-> FALSE, error |-> Ok, result |-> Ok,
     event_log |-> Append(event_log, [event_type |-> "AddRoute", record |-> new_record]),
     records |-> IF existing_record_idx = 0 THEN Append(recs, new_record)
                 ELSE [recs EXCEPT ![existing_record_idx] = new_record],
     table |-> added.table, faults |-> added.faults]

add_routes_outcome(route, added, event_log, recs, faulty) ==
    IF ~IsOk(added.result)
    THEN roll_back_batch(added, undo_events(event_log, recs, added.table, faulty), event_log)
    ELSE record_route([route |-> route, registered_route |-> added.registered_route],
                      find_route_record(recs, added.registered_route), added, event_log, recs)

\* One turn of the loop of add_routes over `route`. `done` tells that the call returns here.
add_routes_step(route, event_log, recs, tbl, best_default, create_fault, set_fault, faulty, reads) ==
    add_routes_outcome(route,
                       add_into_routing_table(route, best_default, tbl, create_fault,
                                              set_fault, reads),
                       event_log, recs, faulty)

\* ------------------------------------------------------------------ clear

\* The loop of delete_applied_routes from record i on: `faulty` holds the indices whose
\* OS delete faults; `deleted` collects the routes whose delete returned Ok and
\* `attempted` the routes the loop came to.
RECURSIVE DeleteFrom(_, _, _, _, _, _, _)
DeleteFrom(i, recs, tbl, faulty, deleted, attempted, faults) ==
    IF i > Len(recs)
    THEN [result |-> Ok, records |-> <<>>, table |-> tbl, deleted |-> deleted,
          attempted |-> attempted, faults |-> faults]
    ELSE LET gone == delete_from_routing_table(recs[i].registered_route, tbl, i \in faulty)
         IN  DeleteFrom(i + 1, recs, gone.table, faulty,
                        IF IsOk(gone.result) THEN deleted \cup {recs[i].registered_route}
                        ELSE deleted,
                        attempted \cup {recs[i].registered_route}, faults + gone.faults)

\* delete_applied_routes without the clear of the record list.
delete_applied_routes_no_clear(recs, tbl, faulty) ==
    [DeleteFrom(1, recs, tbl, faulty, {}, {}, 0) EXCEPT !.records = recs]

delete_applied_routes(recs, tbl, faulty) ==
    DeleteFrom(1, recs, tbl, faulty, {}, {}, 0)

\* ------------------------------------------------------------------ default route change

\* A dispatch loop that calls nothing.
dispatch_no_callbacks(cbs) == <<>>

\* The callbacks the dispatch loop calls, with the number of calls of each.
dispatch_callbacks(cbs) ==
    [c \in {cbs[id] : id \in DOMAIN cbs} |-> 1]

\* A handler that goes on to the records for every event.
is_any_event(event) == event.type # "None"

\* Whether the handler goes on to the records after the callbacks.
is_updated(event) == event.type = "Updated"

\* A record that is policy bound to the best default route of `family`.
is_affected(record, family) ==
    /\ record.route.node.kind = "DefaultNode"
    /\ family = ipnetwork_to_address_family(record.route.network)

\* bound_to that leaves the next hop as it was.
bound_to_interface_only(registered_route, route) ==
    [registered_route EXCEPT !.luid = route.iface]

bound_to(registered_route, route) ==
    [registered_route EXCEPT !.luid = route.iface, !.next_hop = route.gateway]

\* A loop that ends at the first failure.
break_loop(i, len) == len + 1

\* `continue` in the loop over the affected routes: on to the next record.
continue_loop(i, len) == i + 1

\* The loop over the affected routes from record i on: `del_faulty` and `add_faulty`
\* hold the indices whose OS delete / create faults.
RECURSIVE RebindFrom(_, _, _, _, _, _, _, _, _)
RebindFrom(i, recs, tbl, family, route, del_faulty, add_faulty, faults, failed) ==
    IF i > Len(recs)
    THEN [records |-> recs, table |-> tbl, faults |-> faults, failed |-> failed]
    ELSE IF ~is_affected(recs[i], family)
    THEN RebindFrom(i + 1, recs, tbl, family, route, del_faulty, add_faulty, faults, failed)
    ELSE LET deleted == delete_from_routing_table(recs[i].registered_route, tbl,
                                                  i \in del_faulty)
             rebound == bound_to(recs[i].registered_route, route)
             restored == restore_into_routing_table(rebound, deleted.table, i \in add_faulty)
         IN  IF ~IsOk(deleted.result)
             THEN RebindFrom(continue_loop(i, Len(recs)), recs, deleted.table, family, route,
                             del_faulty, add_faulty, faults + deleted.faults, TRUE)
             ELSE RebindFrom(IF IsOk(restored.result) THEN i + 1
                             ELSE continue_loop(i, Len(recs)),
                             [recs EXCEPT ![i].registered_route = rebound],
                             restored.table, family, route, del_faulty, add_faulty,
                             faults + restored.faults, failed \/ ~IsOk(restored.result))

rebind_affected_routes(recs, tbl, family, route, del_faulty, add_faulty) ==
    RebindFrom(1, recs, tbl, family, route, del_faulty, add_faulty, 0, FALSE)

\* ------------------------------------------------------------------ the monitor

NoEvent == [type |-> "None", route |-> NoBest]

\* An evaluate() that reports every difference as Updated and never re-emits.
evaluate_as_updated(last, flag, current) ==
    [last |-> current,
     event |-> IF last = current THEN NoEvent ELSE [type |-> "Updated", route |-> current]]

\* An evaluate() that emits Removed whenever no best default is read, also when none
\* was stored.
evaluate_removed_when_absent(last, flag, current) ==
    IF current = NoBest THEN [last |-> NoBest, event |-> [type |-> "Removed", route |-> NoBest]]
    ELSE IF last # current THEN [last |-> current, event |-> [type |-> "Updated", route |-> current]]
    ELSE IF flag THEN [last |-> last, event |-> [type |-> "UpdatedDetails", route |-> current]]
    ELSE [last |-> last, event |-> NoEvent]

\* DefaultRouteMonitor: evaluate() on the stored best default `last`, the refresh flag
\* and the best default read now.
evaluate(last, flag, current) ==
    IF last = NoBest /\ current = NoBest THEN [last |-> last, event |-> NoEvent]
    ELSE IF last = NoBest THEN [last |-> current, event |-> [type |-> "Updated", route |-> current]]
    ELSE IF current = NoBest THEN [last |-> NoBest, event |-> [type |-> "Removed", route |-> NoBest]]
    ELSE IF last # current THEN [last |-> current, event |-> [type |-> "Updated", route |-> current]]
    ELSE IF flag THEN [last |-> last, event |-> [type |-> "UpdatedDetails", route |-> current]]
    ELSE [last |-> last, event |-> NoEvent]

\* update_refresh_flag for a notification about interface `luid`.
update_refresh_flag(last, flag, luid) ==
    flag \/ (last # NoBest /\ luid = last.iface)

\* ------------------------------------------------------------------ mutexes

Free == [holder |-> "free", poisoned |-> FALSE]
Held(lock) == lock.holder # "free"
Acquire(lock, t) == [lock EXCEPT !.holder = t]
Release(lock) == [lock EXCEPT !.holder = "free"]
\* The guard dropped by a panicking thread.
Poison(lock) == [holder |-> "free", poisoned |-> TRUE]

VARIABLES
    table,        \* OS forwarding table: entries [rr, tag], tag "mgr" = protocol NETMGMT / origin manual
    best,         \* per family: what get_best_default_route reads now
    records,      \* RouteManagerInternal.routes
    nonce,        \* RouteManagerInternal.callbacks.0
    callbacks,    \* RouteManagerInternal.callbacks.1: id -> callback
    handles,      \* live CallbackHandle values (their nonces)
    facadeLock,   \* RouteManager.internal mutex: holder, poisoned
    recLock,      \* routes mutex
    cbLock,       \* callbacks mutex
    usr,          \* per caller thread: position and locals of the running operation
    mon,          \* per family: the monitor's state and the position of its event callback
    hist,         \* history: counters, whether an operation has failed, whether an
                  \* OS delete call has failed, whether a record has been re-bound
    io            \* a call of a free function outside the manager's state: its
                  \* arguments, what it reads from the OS, and its outcome

manager_vars == <<table, best, records, nonce, callbacks, handles, facadeLock, recLock,
                  cbLock, usr, mon, hist>>

vars == <<manager_vars, io>>

\* ------------------------------------------------------------------ initial state

Idle ==
    [pc |-> "idle", event_log |-> <<>>, ret |-> Ok, error |-> Ok, pre_records |-> <<>>, pre_table |-> {},
     deleted |-> {}, attempted |-> {}]

\* An entry the OS holds before the manager starts, not written by the manager.
ForeignEntry == [rr |-> [network |-> "n4a", luid |-> 1, next_hop |-> "g4a"], tag |-> "os"]

\* No free function is being called.
NoCall == [call |-> "none"]

\* RouteManagerInternal::new: no routes, no callbacks, nonce 0; each monitor has read the
\* best default of its family.
Constructed ==
    /\ table = {ForeignEntry}
    /\ best \in [Families -> {NoBest} \cup UNION {BestChoices(f) : f \in Families}]
    /\ best["v4"] \in BestChoices("v4")
    /\ best["v6"] = NoBest
    /\ records = <<>>
    /\ nonce = 0
    /\ callbacks = <<>>
    /\ handles = {}
    /\ facadeLock = Free
    /\ recLock = Free
    /\ cbLock = Free
    /\ usr = [u \in Users |-> Idle]
    /\ mon = [f \in Families |->
                [pc |-> "idle", event |-> NoEvent, last |-> best[f], flag |-> FALSE,
                 pending |-> FALSE, calls |-> <<>>, snap |-> {}]]
    /\ hist = [ops |-> 0, regs |-> 0, faults |-> 0, failed |-> FALSE, rebound |-> FALSE,
               stopped |-> FALSE, cleared |-> FALSE, delete_failed |-> FALSE]

Init == Constructed /\ io = NoCall

\* ------------------------------------------------------------------ add_routes

\* RouteManager::add_routes: self.internal.lock().unwrap()
AddRoutesEnter(u) ==
    /\ usr[u].pc = "idle"
    /\ hist.ops < MaxOps
    /\ ~Held(facadeLock)
    /\ hist' = [hist EXCEPT !.ops = @ + 1]
    /\ IF facadeLock.poisoned
       THEN /\ usr' = [usr EXCEPT ![u] = Idle]
            /\ UNCHANGED facadeLock
       ELSE /\ usr' = [usr EXCEPT ![u] = [Idle EXCEPT !.pc = "add_enter"]]
            /\ facadeLock' = Acquire(facadeLock, u)
    /\ UNCHANGED <<io, table, best, records, nonce, callbacks, handles, recLock, cbLock, mon>>

\* RouteManagerInternal::add_routes: self.routes.lock().unwrap()
AddRoutesLock(u) ==
    /\ usr[u].pc = "add_enter"
    /\ ~Held(recLock)
    /\ IF recLock.poisoned
       THEN /\ usr' = [usr EXCEPT ![u] = Idle]
            /\ facadeLock' = Poison(facadeLock)
            /\ hist' = [hist EXCEPT !.failed = TRUE]
            /\ UNCHANGED recLock
       ELSE /\ usr' = [usr EXCEPT ![u].pc = "add_loop", ![u].pre_records = records,
                                  ![u].pre_table = table]
            /\ recLock' = Acquire(recLock, u)
            /\ UNCHANGED <<facadeLock, hist>>
    /\ UNCHANGED <<io, table, best, records, nonce, callbacks, handles, cbLock, mon>>

\* One route of the batch: resolved, written and recorded, or the batch rolled back.
AddRoutesNext(u) ==
    /\ usr[u].pc = "add_loop"
    /\ Len(usr[u].event_log) < MaxBatch
    /\ \E route \in Routes, create_fault \in BOOLEAN, set_fault \in BOOLEAN,
          faulty \in SUBSET (1..Len(usr[u].event_log)), reads \in PointerReads :
          \E step \in {add_routes_step(route, usr[u].event_log, records, table,
                                        best[ipnetwork_to_address_family(route.network)],
                                        create_fault, set_fault, faulty, reads)} :
              /\ \A i \in 1..Len(usr[u].event_log) : usr[u].event_log[i].record.route # route
              /\ hist.faults + step.faults <= MaxOsFaults
              /\ step.faults = (IF create_fault THEN 1 ELSE 0) + (IF set_fault THEN 1 ELSE 0)
                                + Cardinality(faulty)
              /\ records' = step.records
              /\ table' = step.table
              /\ hist' = [hist EXCEPT !.faults = @ + step.faults,
                                      !.failed = @ \/ step.done,
                                      !.delete_failed = @ \/ faulty # {}]
              /\ IF step.panicked
                 THEN /\ usr' = [usr EXCEPT ![u] = Idle]
                      /\ recLock' = Poison(recLock)
                      /\ facadeLock' = Poison(facadeLock)
                 ELSE /\ usr' = [usr EXCEPT ![u].event_log = step.event_log,
                                            ![u].ret = step.result,
                                            ![u].error = step.error,
                                            ![u].pc = IF step.done THEN "add_ret"
                                                      ELSE "add_loop"]
                      /\ UNCHANGED <<recLock, facadeLock>>
    /\ UNCHANGED <<io, best, nonce, callbacks, handles, cbLock, mon>>

\* The batch is exhausted: Ok(()) through both guards.
AddRoutesEnd(u) ==
    /\ usr[u].pc = "add_loop"
    /\ usr' = [usr EXCEPT ![u] = Idle]
    /\ recLock' = Release(recLock)
    /\ facadeLock' = Release(facadeLock)
    /\ UNCHANGED <<io, table, best, records, nonce, callbacks, handles, cbLock, mon, hist>>

\* The Err of RouteManagerInternal::add_routes reaches the facade's unwrap().
AddRoutesReturn(u) ==
    /\ usr[u].pc = "add_ret"
    /\ usr' = [usr EXCEPT ![u] = Idle]
    /\ recLock' = Release(recLock)
    /\ facadeLock' = Poison(facadeLock)
    /\ UNCHANGED <<io, table, best, records, nonce, callbacks, handles, cbLock, mon, hist>>

\* ------------------------------------------------------------------ clear_routes

ClearEnter(u) ==
    /\ usr[u].pc = "idle"
    /\ hist.ops < MaxOps
    /\ ~Held(facadeLock)
    /\ hist' = [hist EXCEPT !.ops = @ + 1]
    /\ IF facadeLock.poisoned
       THEN /\ usr' = [usr EXCEPT ![u] = Idle]
            /\ UNCHANGED facadeLock
       ELSE /\ usr' = [usr EXCEPT ![u] = [Idle EXCEPT !.pc = "clear_enter"]]
            /\ facadeLock' = Acquire(facadeLock, u)
    /\ UNCHANGED <<io, table, best, records, nonce, callbacks, handles, recLock, cbLock, mon>>

\* delete_applied_routes under the routes mutex.
ClearRun(u) ==
    /\ usr[u].pc = "clear_enter"
    /\ ~Held(recLock)
    /\ IF recLock.poisoned
       THEN /\ usr' = [usr EXCEPT ![u] = Idle]
            /\ facadeLock' = Poison(facadeLock)
            /\ hist' = [hist EXCEPT !.failed = TRUE]
            /\ UNCHANGED <<recLock, records, table>>
       ELSE \E faulty \in SUBSET (1..Len(records)) :
              LET cleared == delete_applied_routes(records, table, faulty)
              IN  /\ cleared.faults = Cardinality(faulty)
                  /\ hist.faults + cleared.faults <= MaxOsFaults
                  /\ records' = cleared.records
                  /\ table' = cleared.table
                  /\ hist' = [hist EXCEPT !.faults = @ + cleared.faults,
                                          !.failed = @ \/ cleared.faults > 0,
                                          !.delete_failed = @ \/ cleared.faults > 0]
                  /\ usr' = [usr EXCEPT ![u].pc = "clear_ret", ![u].ret = cleared.result,
                                        ![u].pre_records = records,
                                        ![u].deleted = cleared.deleted,
                                        ![u].attempted = cleared.attempted]
                  /\ recLock' = Acquire(recLock, u)
                  /\ UNCHANGED facadeLock
    /\ UNCHANGED <<io, best, nonce, callbacks, handles, cbLock, mon>>

ClearReturn(u) ==
    /\ usr[u].pc = "clear_ret"
    /\ usr' = [usr EXCEPT ![u] = Idle]
    /\ recLock' = Release(recLock)
    /\ facadeLock' = Release(facadeLock)
    /\ UNCHANGED <<io, table, best, records, nonce, callbacks, handles, cbLock, mon, hist>>

\* ------------------------------------------------------------------ the callback registry

\* A registration that does not wait for the callbacks mutex.
register_without_lock(lock) == TRUE

\* The callbacks mutex as register_default_route_changed_callback takes it.
register_may_lock(lock) == ~Held(lock)

\* wrapping_add(1) on the i32 nonce.
I32_MAX == 2147483647
I32_MIN == (0 - I32_MAX) - 1
wrapping_add(n) == IF n = I32_MAX THEN I32_MIN ELSE n + 1

\* HashMap::insert / HashMap::remove on the registry.
MapInsert(map, key, value) ==
    [k \in DOMAIN map \cup {key} |-> IF k = key THEN value ELSE map[k]]
\* A remove that leaves the map as it was.
MapRemoveNothing(map, key) == map
MapRemove(map, key) == [k \in DOMAIN map \ {key} |-> map[k]]

\* RouteManager::add_default_route_change_callback: self.internal.lock().unwrap()
RegisterEnter(u) ==
    /\ usr[u].pc = "idle"
    /\ hist.ops < MaxOps
    /\ ~Held(facadeLock)
    /\ hist' = [hist EXCEPT !.ops = @ + 1]
    /\ IF facadeLock.poisoned
       THEN /\ usr' = [usr EXCEPT ![u] = Idle]
            /\ UNCHANGED facadeLock
       ELSE /\ usr' = [usr EXCEPT ![u] = [Idle EXCEPT !.pc = "register_enter"]]
            /\ facadeLock' = Acquire(facadeLock, u)
    /\ UNCHANGED <<io, table, best, records, nonce, callbacks, handles, recLock, cbLock, mon>>

\* register_default_route_changed_callback: the callback registered is the
\* hist.regs + 1-th of the run; the handle returned keeps the nonce.
Register(u) ==
    /\ usr[u].pc = "register_enter"
    /\ register_may_lock(cbLock)
    /\ callbacks' = MapInsert(callbacks, nonce, hist.regs + 1)
    /\ nonce' = wrapping_add(nonce)
    /\ handles' = handles \cup {[nonce |-> nonce, callback |-> hist.regs + 1]}
    /\ hist' = [hist EXCEPT !.regs = @ + 1]
    /\ usr' = [usr EXCEPT ![u] = Idle]
    /\ facadeLock' = Release(facadeLock)
    /\ UNCHANGED <<io, table, best, records, recLock, cbLock, mon>>

\* Drop for CallbackHandle, by the thread that owns the handle.
DropHandle(u) ==
    /\ usr[u].pc = "idle"
    /\ ~Held(cbLock)
    /\ \E h \in handles :
          /\ callbacks' = IF h.nonce \in DOMAIN callbacks THEN MapRemove(callbacks, h.nonce)
                          ELSE callbacks
          /\ handles' = handles \ {h}
    /\ UNCHANGED <<io, table, best, records, nonce, facadeLock, recLock, cbLock, usr, mon, hist>>

\* ------------------------------------------------------------------ the monitors

\* The interface of the row a change notification is about.
ChangedLuid(old, new) == IF new # NoBest THEN new.iface ELSE old.iface

\* The OS changes the default routes of a family (or a property of the best one):
\* the notification handlers update the refresh flag and trigger the evaluation; a
\* monitor that was dropped has cancelled its notifications.
OsChange(f) ==
    /\ hist.ops < MaxOps
    /\ \E new \in {NoBest} \cup BestChoices(f) :
          /\ best' = [best EXCEPT ![f] = new]
          /\ mon' = [mon EXCEPT ![f].pending = (mon[f].pc # "dropped"),
                                ![f].flag = update_refresh_flag(mon[f].last, mon[f].flag,
                                                                ChangedLuid(best[f], new))]
    /\ hist' = [hist EXCEPT !.ops = @ + 1]
    /\ UNCHANGED <<io, table, records, nonce, callbacks, handles, facadeLock, recLock, cbLock, usr>>

\* The coalescer's worker runs evaluate(); an event enters default_route_change.
Evaluate(f) ==
    /\ mon[f].pc = "idle"
    /\ mon[f].pending
    /\ LET ev == evaluate(mon[f].last, mon[f].flag, best[f])
       IN  mon' = [mon EXCEPT ![f].pending = FALSE, ![f].flag = FALSE, ![f].last = ev.last,
                              ![f].event = ev.event,
                              ![f].calls = IF ev.event = NoEvent THEN @ ELSE <<>>,
                              ![f].snap = IF ev.event = NoEvent THEN @ ELSE {},
                              ![f].pc = IF ev.event = NoEvent THEN "idle" ELSE "event"]
    /\ UNCHANGED <<io, table, best, records, nonce, callbacks, handles, facadeLock, recLock,
                   cbLock, usr, hist>>

\* default_route_change: callbacks.lock().unwrap()
DispatchLock(f) ==
    /\ mon[f].pc = "event"
    /\ ~Held(cbLock)
    /\ cbLock' = Acquire(cbLock, f)
    /\ mon' = [mon EXCEPT ![f].pc = "dispatch",
                          ![f].snap = {callbacks[id] : id \in DOMAIN callbacks}]
    /\ UNCHANGED <<io, table, best, records, nonce, callbacks, handles, facadeLock, recLock, usr,
                   hist>>

\* A dispatch whose guard of the callbacks mutex lives to the end of the function.
keep_callbacks_guard(lock) == lock

\* The closing brace of the block that holds the guard of the callbacks mutex.
end_of_dispatch_block(lock) == Release(lock)

\* The loop over callbacks.values(), the end of the block that holds the guard, and the
\* early return for an event that is not Updated.
Dispatch(f) ==
    /\ mon[f].pc = "dispatch"
    /\ cbLock' = end_of_dispatch_block(cbLock)
    /\ mon' = [mon EXCEPT ![f].calls = dispatch_callbacks(callbacks),
                          ![f].pc = IF is_updated(mon[f].event) THEN "rebind" ELSE "idle"]
    /\ UNCHANGED <<io, table, best, records, nonce, callbacks, handles, facadeLock, recLock, usr,
                   hist>>

\* A re-bind that does not wait for the routes mutex.
rebind_without_lock(lock) == TRUE

\* The routes mutex as default_route_change takes it before it reads the records.
rebind_may_lock(lock) == ~Held(lock)

\* records.lock().unwrap(): a poisoned mutex ends the monitor's callback in a panic.
RebindLock(f) ==
    /\ mon[f].pc = "rebind"
    /\ rebind_may_lock(recLock)
    /\ IF recLock.poisoned
       THEN /\ mon' = [mon EXCEPT ![f].pc = "panicked"]
            /\ UNCHANGED recLock
       ELSE /\ mon' = [mon EXCEPT ![f].pc = "rebinding"]
            /\ recLock' = Acquire(recLock, f)
    /\ UNCHANGED <<io, table, best, records, nonce, callbacks, handles, facadeLock, cbLock, usr,
                   hist>>

\* The loop over the affected routes, and the guard dropped at the return.
Rebind(f) ==
    /\ mon[f].pc = "rebinding"
    /\ \E del_faulty \in SUBSET (1..Len(records)), add_faulty \in SUBSET (1..Len(records)) :
          LET done == rebind_affected_routes(records, table, f, mon[f].event.route,
                                             del_faulty, add_faulty)
          IN  /\ done.faults = Cardinality(del_faulty) + Cardinality(add_faulty)
              /\ hist.faults + done.faults <= MaxOsFaults
              /\ records' = done.records
              /\ table' = done.table
              /\ hist' = [hist EXCEPT !.faults = @ + done.faults,
                                      !.failed = @ \/ done.failed,
                                      !.rebound = @ \/ done.records # records,
                                      !.delete_failed = @ \/ del_faulty # {}]
    /\ recLock' = Release(recLock)
    /\ mon' = [mon EXCEPT ![f].pc = "idle"]
    /\ UNCHANGED <<io, best, nonce, callbacks, handles, facadeLock, cbLock, usr>>

\* ------------------------------------------------------------------ stop and drop

\* RouteManager::stop: its body is empty. hist.stopped notes that it was called.
Stop(u) ==
    /\ usr[u].pc = "idle"
    /\ hist.ops < MaxOps
    /\ hist' = [hist EXCEPT !.ops = @ + 1, !.stopped = TRUE]
    /\ UNCHANGED <<io, table, best, records, nonce, callbacks, handles, facadeLock, recLock,
                   cbLock, usr, mon>>

\* A drop that clears the routes before it drops the monitors.
drop_routes_first == <<"routes", "v4", "v6">>

\* Drop for RouteManagerInternal: what it drops, in order.
drop_steps == <<"v4", "v6", "routes">>

DropPcs == <<"drop1", "drop2", "drop3">>
InDrop(u) == \E i \in 1..Len(DropPcs) : DropPcs[i] = usr[u].pc
DropPos(u) == CHOOSE i \in 1..Len(DropPcs) : DropPcs[i] = usr[u].pc
AfterDrop(i) == IF i < Len(DropPcs) THEN DropPcs[i + 1] ELSE "gone"

\* Drop for RouteManager: stop(), then the only Arc of the internal goes away and
\* Drop for RouteManagerInternal starts.
DropEnter(u) ==
    /\ usr[u].pc = "idle"
    /\ hist.ops < MaxOps
    /\ hist' = [hist EXCEPT !.ops = @ + 1]
    /\ usr' = [usr EXCEPT ![u].pc = DropPcs[1]]
    /\ UNCHANGED <<io, table, best, records, nonce, callbacks, handles, facadeLock, recLock,
                   cbLock, mon>>

\* drop(self.route_monitor_v4.take()) / drop(self.route_monitor_v6.take()): the
\* monitor's teardown cancels the notifications and ends the coalescer's worker, a
\* trigger still pending is discarded; the teardown returns when the worker is not
\* inside the callback.
DropMonitor(u) ==
    /\ InDrop(u)
    /\ drop_steps[DropPos(u)] \in Families
    /\ mon[drop_steps[DropPos(u)]].pc \in {"idle", "panicked"}
    /\ mon' = [mon EXCEPT ![drop_steps[DropPos(u)]].pc = "dropped",
                          ![drop_steps[DropPos(u)]].pending = FALSE]
    /\ usr' = [usr EXCEPT ![u].pc = AfterDrop(DropPos(u))]
    /\ UNCHANGED <<io, table, best, records, nonce, callbacks, handles, facadeLock, recLock,
                   cbLock, hist>>

\* self.delete_applied_routes() of the drop: routes.lock().unwrap(), the loop, the
\* clear, and the guard dropped at the return.
DropRoutes(u) ==
    /\ InDrop(u)
    /\ drop_steps[DropPos(u)] = "routes"
    /\ ~Held(recLock)
    /\ IF recLock.poisoned
       THEN /\ usr' = [usr EXCEPT ![u].pc = "panicked"]
            /\ hist' = [hist EXCEPT !.failed = TRUE]
            /\ UNCHANGED <<records, table>>
       ELSE \E faulty \in SUBSET (1..Len(records)) :
              \E cleared \in {delete_applied_routes(records, table, faulty)} :
                  /\ cleared.faults = Cardinality(faulty)
                  /\ hist.faults + cleared.faults <= MaxOsFaults
                  /\ records' = cleared.records
                  /\ table' = cleared.table
                  /\ hist' = [hist EXCEPT !.faults = @ + cleared.faults,
                                          !.failed = @ \/ cleared.faults > 0,
                                          !.cleared = TRUE,
                                          !.delete_failed = @ \/ cleared.faults > 0]
                  /\ usr' = [usr EXCEPT ![u].pc = AfterDrop(DropPos(u)),
                                        ![u].pre_records = records]
    /\ UNCHANGED <<io, best, nonce, callbacks, handles, facadeLock, recLock, cbLock, mon>>

\* Weak::upgrade on RouteManagerHandle.internal: Some while the RouteManager lives.
upgrade(pc) == IF pc = "gone" THEN "None" ELSE "Some"

\* Option::unwrap on the upgraded Arc: a panic on None.
unwrap_panics(option) == option = "None"

\* RouteManagerHandle::add_routes: upgrade().unwrap(), then as RouteManager::add_routes.
HandleAddRoutes(u) ==
    IF unwrap_panics(upgrade(usr[u].pc))
    THEN /\ hist.ops < MaxOps
         /\ hist' = [hist EXCEPT !.ops = @ + 1]
         /\ usr' = [usr EXCEPT ![u].pc = "panicked"]
         /\ UNCHANGED <<io, table, best, records, nonce, callbacks, handles, facadeLock,
                        recLock, cbLock, mon>>
    ELSE AddRoutesEnter(u)

\* RouteManagerHandle::add_default_route_change_callback: upgrade().unwrap(), then as
\* RouteManager::add_default_route_change_callback.
HandleRegister(u) ==
    IF unwrap_panics(upgrade(usr[u].pc))
    THEN /\ hist.ops < MaxOps
         /\ hist' = [hist EXCEPT !.ops = @ + 1]
         /\ usr' = [usr EXCEPT ![u].pc = "panicked"]
         /\ UNCHANGED <<io, table, best, records, nonce, callbacks, handles, facadeLock,
                        recLock, cbLock, mon>>
    ELSE RegisterEnter(u)

\* ------------------------------------------------------------------ specification

Next ==
    \/ \E u \in Users :
          \/ AddRoutesEnter(u)
          \/ AddRoutesLock(u)
          \/ AddRoutesNext(u)
          \/ AddRoutesEnd(u)
          \/ AddRoutesReturn(u)
          \/ ClearEnter(u)
          \/ ClearRun(u)
          \/ ClearReturn(u)
          \/ RegisterEnter(u)
          \/ Register(u)
          \/ DropHandle(u)
    \/ \E f \in Families :
          \/ OsChange(f)
          \/ Evaluate(f)
          \/ DispatchLock(f)
          \/ Dispatch(f)
          \/ RebindLock(f)
          \/ Rebind(f)

Spec == Init /\ [][Next]_vars

\* The monitors run whenever they can, and a call that has started runs to its return.
FairSpec ==
    /\ Spec
    /\ \A f \in Families :
          WF_vars(Evaluate(f) \/ DispatchLock(f) \/ Dispatch(f) \/ RebindLock(f) \/ Rebind(f))
    /\ \A u \in Users :
          WF_vars(AddRoutesLock(u) \/ AddRoutesEnd(u) \/ AddRoutesReturn(u) \/ ClearRun(u)
                  \/ ClearReturn(u) \/ Register(u))

\* The route manager with its end of life: stop, the drop of the RouteManager, and
\* calls through a RouteManagerHandle.
LifeNext ==
    \/ Next
    \/ \E u \in Users :
          \/ Stop(u)
          \/ DropEnter(u)
          \/ DropMonitor(u)
          \/ DropRoutes(u)
          \/ HandleAddRoutes(u)
          \/ HandleRegister(u)

LifeSpec == Init /\ [][LifeNext]_vars

\* ------------------------------------------------------------------ winnet_rs: the best default route

\* Rows in a forwarding table read by GetIpForwardTable2.
MaxRows == 2

None == [some |-> FALSE]
Some(v) == [some |-> TRUE, value |-> v]

\* The interfaces the rows are on.
RowLuids == {1, 2}

\* MIB_IPFORWARD_ROW2: DestinationPrefix.PrefixLength, NextHop, InterfaceLuid, Metric.
ForwardRows ==
    [prefix_len : {0, 24}, next_hop : {"unspec", "gw"}, luid : RowLuids, metric : {0, 1}]

\* What the OS answers about an interface: the type in its LUID, GetIfEntry2 (status,
\* Description as words), GetIpInterfaceEntry (status, Connected).
Ethernet ==
    [if_type |-> "IF_TYPE_ETHERNET_CSMACD", if_entry |-> "NO_ERROR",
     description |-> <<"Intel", "Ethernet">>, ip_interface |-> "NO_ERROR", connected |-> 1]

Interfaces ==
    {Ethernet,
     [Ethernet EXCEPT !.if_type = "IF_TYPE_SOFTWARE_LOOPBACK"],
     [Ethernet EXCEPT !.if_type = "IF_TYPE_PROP_VIRTUAL",
                      !.description = <<"Wintun", "Userspace", "Tunnel">>],
     [Ethernet EXCEPT !.if_entry = "ERROR_FILE_NOT_FOUND"],
     [Ethernet EXCEPT !.ip_interface = "ERROR_NOT_FOUND"],
     [Ethernet EXCEPT !.connected = 0]}

\* MIB_IPINTERFACE_ROW.Metric of the interface.
InterfaceMetric(luid) == luid - 1

TUNNEL_INTERFACE_DESCS == <<"WireGuard", "Wintun", "Tunnel">>

num_entries(tbl) == Len(tbl)

\* usize::try_from(i).unwrap() * size_of::<MIB_IPFORWARD_ROW2>() < isize::MAX, which
\* holds for the index of every row of a table in memory.
offset_fits(i) == TRUE

\* MibIpforwardTable2::get_table_entry for the 0-based index i.
get_table_entry(tbl, i) ==
    IF i < num_entries(tbl) \/ offset_fits(i) THEN None ELSE Some(tbl[i + 1])

route_has_gateway(route) == route.next_hop # "unspec"

\* The windows() search of a description for one of the tunnel descriptions.
description_is_tunnel(description) ==
    \E i \in 1..Len(description), j \in 1..Len(TUNNEL_INTERFACE_DESCS) :
        description[i] = TUNNEL_INTERFACE_DESCS[j]

is_route_on_physical_interface(route, ifaces) ==
    IF ifaces[route.luid].if_type \in {"IF_TYPE_SOFTWARE_LOOPBACK", "IF_TYPE_TUNNEL"}
    THEN [result |-> Ok, value |-> FALSE]
    ELSE IF ifaces[route.luid].if_entry # "NO_ERROR"
    THEN [result |-> Err("WindowsApi", 0), value |-> FALSE]
    ELSE [result |-> Ok, value |-> ~description_is_tunnel(ifaces[route.luid].description)]

\* The loop of get_best_default_internal over the indices i..num_entries - 1.
RECURSIVE CandidatesFrom(_, _, _, _)
CandidatesFrom(i, tbl, ifaces, candidates) ==
    IF i >= num_entries(tbl) THEN [result |-> Ok, candidates |-> candidates]
    ELSE IF ~get_table_entry(tbl, i).some
    THEN [result |-> Err("panic", 0), candidates |-> candidates]
    ELSE IF get_table_entry(tbl, i).value.prefix_len # 0
            \/ ~route_has_gateway(get_table_entry(tbl, i).value)
    THEN CandidatesFrom(i + 1, tbl, ifaces, candidates)
    ELSE IF ~IsOk(is_route_on_physical_interface(get_table_entry(tbl, i).value, ifaces).result)
    THEN [result |-> is_route_on_physical_interface(get_table_entry(tbl, i).value,
                                                    ifaces).result,
          candidates |-> candidates]
    ELSE IF is_route_on_physical_interface(get_table_entry(tbl, i).value, ifaces).value
    THEN CandidatesFrom(i + 1, tbl, ifaces,
                        Append(candidates, get_table_entry(tbl, i).value))
    ELSE CandidatesFrom(i + 1, tbl, ifaces, candidates)

\* annotated_routes: the filter_map over the candidates from index i on.
RECURSIVE annotated_routes(_, _, _)
annotated_routes(routes, ifaces, i) ==
    IF i > Len(routes) THEN <<>>
    ELSE IF ifaces[routes[i].luid].ip_interface = "NO_ERROR"
            /\ ifaces[routes[i].luid].connected # 0
    THEN <<[route |-> routes[i],
            effective_metric |-> routes[i].metric + InterfaceMetric(routes[i].luid)]>>
         \o annotated_routes(routes, ifaces, i + 1)
    ELSE annotated_routes(routes, ifaces, i + 1)

\* The index in `annotated` of the element sort_by (a stable sort on effective_metric)
\* puts first.
first_after_sort(annotated) ==
    CHOOSE i \in 1..Len(annotated) :
        /\ \A j \in 1..Len(annotated) :
              annotated[i].effective_metric <= annotated[j].effective_metric
        /\ \A j \in 1..(i - 1) :
              annotated[j].effective_metric > annotated[i].effective_metric

\* The part of get_best_default_internal after the loop.
best_of_candidates(annotated) ==
    IF annotated = <<>> THEN [result |-> Ok, best |-> None]
    ELSE [result |-> Ok,
          best |-> Some([iface |-> annotated[first_after_sort(annotated)].route.luid,
                         gateway |-> annotated[first_after_sort(annotated)].route.next_hop])]

get_best_default_internal(tbl, ifaces) ==
    IF ~IsOk(CandidatesFrom(0, tbl, ifaces, <<>>).result)
    THEN [result |-> CandidatesFrom(0, tbl, ifaces, <<>>).result, best |-> None]
    ELSE best_of_candidates(annotated_routes(CandidatesFrom(0, tbl, ifaces, <<>>).candidates,
                                             ifaces, 1))

\* The forwarding tables of up to MaxRows rows.
ForwardTables == UNION {[1..n -> ForwardRows] : n \in 0..MaxRows}

\* A call of get_best_default_internal on a table and the interfaces under it.
SelectInit ==
    /\ Constructed
    /\ io \in [call : {"get_best_default_internal"}, table : ForwardTables,
                ifaces : [RowLuids -> Interfaces], done : {FALSE}, result : {Ok},
                best : {None}]

GetBestDefault ==
    /\ io.call = "get_best_default_internal"
    /\ ~io.done
    /\ \E outcome \in {get_best_default_internal(io.table, io.ifaces)} :
          io' = [io EXCEPT !.done = TRUE, !.result = outcome.result, !.best = outcome.best]
    /\ UNCHANGED manager_vars

SelectNext == GetBestDefault

SelectSpec == SelectInit /\ [][SelectNext]_vars

\* ------------------------------------------------------------------ get_mtu_for_route

U16_MAX == 65535

\* MIB_IPINTERFACE_ROW.NlMtu values (u32) on both sides of the 16-bit range.
NlMtus == {0, 576, 1500, U16_MAX, U16_MAX + 1, U16_MAX + 1 + 1500, 2 * U16_MAX + 1}

\* A conversion that keeps the low 16 bits.
u16_truncate(n) == [result |-> Ok, value |-> n % (U16_MAX + 1)]

\* u16::try_from(u32)
u16_try_from(n) ==
    IF n <= U16_MAX THEN [result |-> Ok, value |-> n]
    ELSE [result |-> Err("TryFromIntError", 0), value |-> 0]

\* What get_best_default_route(family) of routing::windows can return.
BestDefaultResults(family) ==
    {[result |-> Ok, best |-> None], [result |-> Err("WindowsApi", 0), best |-> None]}
    \cup {[result |-> Ok, best |-> Some(b)] : b \in BestChoices(family)}

\* The free function get_mtu_for_route: Result<Option<u16>>, given what
\* get_best_default_route returned, the status of get_ip_interface_entry and the
\* NlMtu of the row it filled.
get_mtu_for_route(best_default, entry_status, nl_mtu) ==
    IF ~IsOk(best_default.result) THEN [result |-> Err("GetMtu", 0), mtu |-> None]
    ELSE IF ~best_default.best.some THEN [result |-> Ok, mtu |-> None]
    ELSE IF entry_status # "NO_ERROR" THEN [result |-> Err("GetMtu", 0), mtu |-> None]
    ELSE IF ~IsOk(u16_try_from(nl_mtu).result) THEN [result |-> Err("GetMtu", 0), mtu |-> None]
    ELSE [result |-> Ok, mtu |-> Some(u16_try_from(nl_mtu).value)]

\* The match of RouteManagerHandle::get_mtu_for_route on that result: Result<u16>.
handle_get_mtu_for_route(inner) ==
    IF ~IsOk(inner.result) THEN [result |-> inner.result, mtu |-> None]
    ELSE IF ~inner.mtu.some THEN [result |-> Err("GetMtu", 0), mtu |-> None]
    ELSE [result |-> Ok, mtu |-> inner.mtu]

\* A call of RouteManagerHandle::get_mtu_for_route(ip) with an address of `family`.
MtuInit ==
    /\ Constructed
    /\ \E family \in Families :
          io \in [call : {"get_mtu_for_route"}, family : {family},
                  best_default : BestDefaultResults(family),
                  entry_status : {"NO_ERROR", "ERROR_NOT_FOUND"}, nl_mtu : NlMtus,
                  stage : {"called"}, result : {Ok}, mtu : {None}]

\* The call of the free function.
GetMtuForRoute ==
    /\ io.call = "get_mtu_for_route"
    /\ io.stage = "called"
    /\ \E inner \in {get_mtu_for_route(io.best_default, io.entry_status, io.nl_mtu)} :
          io' = [io EXCEPT !.stage = "matched", !.result = inner.result, !.mtu = inner.mtu]
    /\ UNCHANGED manager_vars

\* The match on its result and the return.
HandleGetMtuForRoute ==
    /\ io.call = "get_mtu_for_route"
    /\ io.stage = "matched"
    /\ \E outer \in {handle_get_mtu_for_route([result |-> io.result, mtu |-> io.mtu])} :
          io' = [io EXCEPT !.stage = "returned", !.result = outer.result, !.mtu = outer.mtu]
    /\ UNCHANGED manager_vars

MtuNext == GetMtuForRoute \/ HandleGetMtuForRoute

MtuSpec == MtuInit /\ [][MtuNext]_vars

\* ------------------------------------------------------------------ string-encoded LUIDs

\* The `?` form of a LUID: `?`, then its 16 hexadecimal digits in lower case.
format_luid(luid) ==
    <<"?">> \o [i \in 1..(STRING_ENCODED_LUID_LENGTH - 1) |-> HexDigits[luid[i] + 1]]

\* LUIDs that differ in their first and last digits.
LuidValues ==
    {[U64Zero EXCEPT ![1] = hi, ![STRING_ENCODED_LUID_LENGTH - 1] = lo] :
        hi \in {0, 1, 10, 15}, lo \in {0, 1, 10, 15}}

\* Device names of 16, 17 and 18 characters: a first character, a second, zeros, a
\* last.
DeviceNames ==
    {<<first, second>> \o [i \in 1..n |-> "0"] \o <<last>> :
        first \in {"?", "#"}, second \in {"0", "1", "a", "A", "f", "+", "g"},
        last \in {"0", "1", "a", "A", "f", "+", "g"},
        n \in (STRING_ENCODED_LUID_LENGTH - 4)..(STRING_ENCODED_LUID_LENGTH - 2)}

\* A LUID to be written in the `?` form, and another device name.
LuidInit ==
    /\ Constructed
    /\ io \in [call : {"parse_string_encoded_luid"}, luid : LuidValues,
                other : DeviceNames, encoded : {<<>>}, parsed : {<<>>}]

\* The LUID is written in the `?` form.
FormatLuid ==
    /\ io.call = "parse_string_encoded_luid"
    /\ io.encoded = <<>>
    /\ io' = [io EXCEPT !.encoded = <<format_luid(io.luid), io.other>>]
    /\ UNCHANGED manager_vars

\* parse_string_encoded_luid on the next of the two names.
ParseLuid ==
    /\ io.call = "parse_string_encoded_luid"
    /\ Len(io.parsed) < Len(io.encoded)
    /\ io' = [io EXCEPT
                !.parsed = Append(@, parse_string_encoded_luid(io.encoded[Len(@) + 1]))]
    /\ UNCHANGED manager_vars

LuidNext == FormatLuid \/ ParseLuid

LuidSpec == LuidInit /\ [][LuidNext]_vars

\* ------------------------------------------------------------------ the table calls alone

\* Registered routes to delete.
TargetRoutes ==
    {[network |-> "n4a", luid |-> 1, next_hop |-> "g4a"],
     [network |-> "n4b", luid |-> 1, next_hop |-> "g4a"]}

\* Forwarding tables the calls meet: the entry of the OS, entries the manager wrote.
TableChoices ==
    SUBSET ({ForeignEntry} \cup {[rr |-> rr, tag |-> "mgr"] : rr \in TargetRoutes})

\* A call of add_into_routing_table(route) or delete_from_routing_table(target) on a
\* table, with the OS calls that fault.
TableInit ==
    /\ Constructed
    /\ \E route \in Routes :
          io \in [call : {"add_into_routing_table", "delete_from_routing_table"},
                  route : {route},
                  best_default : {NoBest}
                                 \cup BestChoices(ipnetwork_to_address_family(route.network)),
                  target : TargetRoutes, table : TableChoices,
                  create_fault : BOOLEAN, set_fault : BOOLEAN, delete_fault : BOOLEAN,
                  reads : PointerReads, done : {FALSE}, result : {Ok}, registered_route : {NoRoute},
                  after : {{}}]

AddIntoRoutingTable ==
    /\ io.call = "add_into_routing_table"
    /\ ~io.done
    /\ ~io.delete_fault
    /\ \E added \in {add_into_routing_table(io.route, io.best_default, io.table,
                                              io.create_fault, io.set_fault, io.reads)} :
          io' = [io EXCEPT !.done = TRUE, !.result = added.result,
                           !.registered_route = added.registered_route,
                           !.after = added.table]
    /\ UNCHANGED manager_vars

DeleteFromRoutingTable ==
    /\ io.call = "delete_from_routing_table"
    /\ ~io.done
    /\ ~io.create_fault /\ ~io.set_fault
    /\ \E deleted \in {delete_from_routing_table(io.target, io.table, io.delete_fault)} :
          io' = [io EXCEPT !.done = TRUE, !.result = deleted.result, !.after = deleted.table]
    /\ UNCHANGED manager_vars

TableNext == AddIntoRoutingTable \/ DeleteFromRoutingTable

TableSpec == TableInit /\ [][TableNext]_vars

\* ------------------------------------------------------------------ the record list alone

\* Registered routes over two prefixes, two interfaces and two next hops.
RouteTriples ==
    [network : {"n4a", "n4b"}, luid : {1, 2}, next_hop : {"g4a", "g4b"}]

\* The record add_routes makes of a registered route.
RecordOf(rr) ==
    [route |-> [network |-> rr.network, node |-> RealNode(NoDevice, rr.next_hop)],
     registered_route |-> rr]

\* The record lists the calls meet: up to two records, no registered route twice.
StoredLists ==
    {<<>>} \cup {<<RecordOf(a)>> : a \in RouteTriples}
           \cup {<<RecordOf(p[1]), RecordOf(p[2])>> :
                     p \in {q \in RouteTriples \X RouteTriples : q[1] # q[2]}}

\* The table that holds the entries of a record list.
EntriesOf(recs) == {[rr |-> recs[i].registered_route, tag |-> "mgr"] : i \in 1..Len(recs)}

StoreInit ==
    /\ Constructed
    /\ io \in [call : {"record_route"}, records : StoredLists, new : RouteTriples,
               stage : {0}, event_log : {<<>>}, recorded : {<<>>}, undone : {<<>>}]

\* add_routes after the write of `new` succeeded: the event is logged and the record
\* stored.
RecordRoute ==
    /\ io.call = "record_route"
    /\ io.stage = 0
    /\ \E step \in {record_route(RecordOf(io.new), find_route_record(io.records, io.new),
                                 [table |-> EntriesOf(io.records) \cup
                                            {[rr |-> io.new, tag |-> "mgr"]},
                                  faults |-> 0],
                                 <<>>, io.records)} :
          io' = [io EXCEPT !.stage = 1, !.event_log = step.event_log,
                           !.recorded = step.records]
    /\ UNCHANGED manager_vars

\* The next route of the batch failed: undo_events over the log, with no OS fault.
UndoEvents ==
    /\ io.call = "record_route"
    /\ io.stage = 1
    /\ \E undone \in {undo_events(io.event_log, io.recorded, EntriesOf(io.recorded), {})} :
          io' = [io EXCEPT !.stage = 2, !.undone = undone.records]
    /\ UNCHANGED manager_vars

StoreNext == RecordRoute \/ UndoEvents

StoreSpec == StoreInit /\ [][StoreNext]_vars

\* ------------------------------------------------------------------ the re-bind alone

\* Records as add_routes stores them while `best4` is the best IPv4 default route:
\* two routes by the default node, one by gateway and one of the other family.
StoredRecords(best4) ==
    {[route |-> [network |-> "n4a", node |-> DefaultNode],
      registered_route |-> [network |-> "n4a", luid |-> best4.iface,
                            next_hop |-> best4.gateway]],
     [route |-> [network |-> "n4b", node |-> DefaultNode],
      registered_route |-> [network |-> "n4b", luid |-> best4.iface,
                            next_hop |-> best4.gateway]],
     [route |-> [network |-> "n4a", node |-> RealNode(NoDevice, "g4a")],
      registered_route |-> [network |-> "n4a", luid |-> 1, next_hop |-> "g4a"]],
     [route |-> [network |-> "n6a", node |-> DefaultNode],
      registered_route |-> [network |-> "n6a", luid |-> 1, next_hop |-> "g6a"]]}

\* The lists of up to three of these records, no registered route twice.
RebindLists ==
    UNION {{recs \in UNION {[1..n -> StoredRecords(b)] : n \in 0..3} :
               \A i \in 1..Len(recs), j \in 1..Len(recs) :
                   i # j => ~RegisteredRouteEq(recs[i].registered_route,
                                               recs[j].registered_route)} :
           b \in BestChoices("v4")}

\* Events a monitor passes in over a run.
MaxRebinds == 2

RebindInit ==
    /\ Constructed
    /\ \E recs \in RebindLists :
          io = [call |-> "default_route_change", records |-> recs, table |-> EntriesOf(recs),
                n |-> 0, route |-> NoBest, family |-> "v4", del_faulty |-> {},
                add_faulty |-> {}, before |-> recs, before_table |-> EntriesOf(recs)]

\* default_route_change for an Updated event of a monitor, from the records lock on.
DefaultRouteChange ==
    /\ io.call = "default_route_change"
    /\ io.n < MaxRebinds
    /\ \E f \in Families, del_faulty \in SUBSET (1..Len(io.records)),
          add_faulty \in SUBSET (1..Len(io.records)) :
          \E route \in BestChoices(f) :
              \E done \in {rebind_affected_routes(io.records, io.table, f, route,
                                                  del_faulty, add_faulty)} :
                  /\ Cardinality(del_faulty) + Cardinality(add_faulty) <= 1
                  /\ done.faults = Cardinality(del_faulty) + Cardinality(add_faulty)
                  /\ io' = [io EXCEPT !.n = @ + 1, !.route = route, !.family = f,
                                      !.del_faulty = del_faulty, !.add_faulty = add_faulty,
                                      !.before = io.records, !.before_table = io.table,
                                      !.records = done.records, !.table = done.table]
    /\ UNCHANGED manager_vars

RebindSpec == RebindInit /\ [][DefaultRouteChange]_vars

\* ------------------------------------------------------------------ the registry near the wrap

\* Values of the nonce after many registrations: just before the counter comes
\* back to 0, and just before it passes from I32_MAX to I32_MIN.
NonceStarts == {0 - 1, I32_MAX}

\* Handles registered by earlier calls and not dropped since, with their callbacks.
EarlierHandles == {[nonce |-> 0, callback |-> 0], [nonce |-> 1, callback |-> 0 - 1]}

\* The registry entries of a set of handles with distinct nonces.
EntriesOfHandles(hs) ==
    [id \in {h.nonce : h \in hs} |-> (CHOOSE h \in hs : h.nonce = id).callback]

\* The manager after registrations and drops that brought the nonce near the end
\* of its range: the entries of the registry are those of the live handles.
RegistryInit ==
    /\ table = {ForeignEntry}
    /\ best \in [Families -> {NoBest} \cup UNION {BestChoices(f) : f \in Families}]
    /\ best["v4"] \in BestChoices("v4")
    /\ best["v6"] = NoBest
    /\ records = <<>>
    /\ nonce \in NonceStarts
    /\ handles \in SUBSET EarlierHandles
    /\ callbacks = EntriesOfHandles(handles)
    /\ facadeLock = Free
    /\ recLock = Free
    /\ cbLock = Free
    /\ usr = [u \in Users |-> Idle]
    /\ mon = [f \in Families |->
                [pc |-> "idle", event |-> NoEvent, last |-> best[f], flag |-> FALSE,
                 pending |-> FALSE, calls |-> <<>>, snap |-> {}]]
    /\ hist = [ops |-> 0, faults |-> 0, regs |-> 0, rebound |-> FALSE, failed |-> FALSE,
               stopped |-> FALSE, cleared |-> FALSE, delete_failed |-> FALSE]
    /\ io = NoCall

RegistryNext == \E u \in Users : RegisterEnter(u) \/ Register(u) \/ DropHandle(u)

RegistrySpec == RegistryInit /\ [][RegistryNext]_vars

\* ------------------------------------------------------------------ the gateway lookup alone

\* The gateway lists an adapter can carry, in the order of FirstGatewayAddress.
GatewayLists ==
    {<<>>, <<"g4a">>, <<"g4a", "g4b">>, <<"g4b", "g4a">>, <<"g6a", "g4a">>}

\* The adapters the enumeration can report under a given interface id.
AdapterChoices(luid) ==
    {[Luid |-> luid, gateways |-> g, Ipv4Enabled |-> e, Ipv6Enabled |-> TRUE,
      Ipv4Metric |-> metric, Ipv6Metric |-> metric] :
        g \in GatewayLists, e \in BOOLEAN, metric \in {10, 25}}

\* The statuses of GetAdaptersAddresses once the buffer is large enough.
AdapterStatuses == {"ERROR_SUCCESS", "ERROR_NO_DATA", "ERROR_INVALID_PARAMETER"}

GatewayInit ==
    /\ Constructed
    /\ io \in [call : {"interface_luid_from_gateway"},
                adapters : {<<a, b>> : a \in AdapterChoices(2), b \in AdapterChoices(1)},
                status : AdapterStatuses, gateway : {"g4a", "g4b", "g6a"},
                reads : PointerReads, done : {FALSE}, result : {Ok}, luid : {0}]

\* One call of interface_luid_from_gateway.
InterfaceLuidFromGateway ==
    /\ io.call = "interface_luid_from_gateway"
    /\ ~io.done
    /\ \E found \in {interface_luid_from_gateway(io.gateway,
                                                  adapters_new(io.status, io.adapters),
                                                  io.reads)} :
          io' = [io EXCEPT !.done = TRUE, !.result = found.result, !.luid = found.luid]
    /\ UNCHANGED manager_vars

GatewaySpec == GatewayInit /\ [][InterfaceLuidFromGateway]_vars

\* ------------------------------------------------------------------ the burst coalescer

\* Durations and instants are in units of 10 ms.

\* The quiet window Q (200 ms) and the maximum wait W (2 s).
QuietWindow == 20
MaximumWait == 200

\* The burst of the coalescing test: 50 notifications, one every 10 ms.
BurstTriggers == 50

\* Short durations, instants and queue lengths for the runs with free triggers.
SmallQuiet == 2
SmallWait == 4
MaxTime == 9
MaxPending == 2

\* The three OS notifications of a monitor.
Notifications == {"route", "interface", "address"}

\* The runs: free triggers with short durations, and the burst test with the defaults.
Timings ==
    {[mode |-> "free", q |-> SmallQuiet, w |-> SmallWait, left |-> 0, horizon |-> MaxTime],
     [mode |-> "burst", q |-> QuietWindow, w |-> MaximumWait, left |-> BurstTriggers,
      horizon |-> MaximumWait + 2 * QuietWindow]}

\* A debouncer without the cap.
quiet_deadline(start, last, q, w) == last + q

\* A timer that always runs to the cap.
cap_deadline(start, last, q, w) == start + w

\* The instant the worker's timed receive ends: Q after the last trigger, and no
\* later than W after the first trigger of the burst.
deadline(start, last, q, w) ==
    IF last + q < start + w THEN last + q ELSE start + w

\* A sink started on a thread of its own: the worker goes on receiving.
spawn_sink(pc) == "recv"

\* The worker calls the sink and receives again when it has returned.
invoke_sink(pc) == "in_f"

\* A worker that fires for the burst it was collecting when the channel closes.
flush_on_disconnect(pc) == [pc |-> "exited", fire |-> pc = "timed"]

\* The worker's receive on the closed channel: it exits, and the sink is not called.
on_disconnected(pc) == [pc |-> "exited", fire |-> FALSE]

\* A teardown that frees the context first.
context_first == <<"context", "cancel", "coalescer">>

\* The order of the monitor's teardown.
teardown_steps == <<"cancel", "coalescer", "context">>

CoalInit ==
    /\ Constructed
    /\ \E t \in Timings :
          io = [call |-> "coalescer", mode |-> t.mode, q |-> t.q, w |-> t.w, left |-> t.left,
                horizon |-> t.horizon, sent |-> FALSE, now |-> 0,
                notif |-> [n \in Notifications |-> "registered"],
                chan |-> 0, open |-> TRUE, pc |-> "recv", start |-> 0, last |-> 0,
                running |-> 0, fired |-> 0, fire_at |-> 0, capped |-> FALSE,
                triggered |-> FALSE, first_trig |-> 0, last_trig |-> 0, gaps_ok |-> TRUE,
                td |-> 0, ctx |-> TRUE, uaf |-> FALSE, pending |-> FALSE, late |-> FALSE]

InCoalescer == io.call = "coalescer"

\* The handlers that are running.
Running == {n \in Notifications : io.notif[n] = "running"}

\* The step of the teardown that is due.
TeardownDue(step) == io.td < Len(teardown_steps) /\ teardown_steps[io.td + 1] = step

\* The OS calls the handler of a notification: update_refresh_flag on the context.
HandlerEnter(n) ==
    /\ InCoalescer
    /\ io.notif[n] = "registered"
    /\ io.chan + Cardinality(Running) < MaxPending
    /\ io.mode = "burst" => n = "route" /\ io.left > 0 /\ ~io.sent
    /\ io' = [io EXCEPT !.notif[n] = "running", !.uaf = @ \/ ~io.ctx]
    /\ UNCHANGED manager_vars

\* The handler's trigger(): a send that does not block, and the handler returns.
HandlerTrigger(n) ==
    /\ InCoalescer
    /\ io.notif[n] = "running"
    /\ io' = IF io.open
             THEN [io EXCEPT !.notif[n] = "registered",
                             !.chan = @ + 1,
                             !.sent = TRUE,
                             !.left = IF @ > 0 THEN @ - 1 ELSE 0,
                             !.triggered = TRUE,
                             !.first_trig = IF io.triggered THEN @ ELSE io.now,
                             !.last_trig = io.now,
                             !.gaps_ok = @ /\ (io.triggered => io.now - io.last_trig < io.q)]
             ELSE [io EXCEPT !.notif[n] = "registered"]
    /\ UNCHANGED manager_vars

\* The sink is called at `at`.
Fire(state, at) ==
    [state EXCEPT !.pc = invoke_sink(state.pc),
                  !.running = @ + 1,
                  !.fired = @ + 1,
                  !.fire_at = at,
                  !.capped = @ \/ (at = state.start + state.w /\ at < state.last + state.q),
                  !.uaf = @ \/ ~state.ctx]

\* The worker's receive returns: a trigger, which starts a burst or extends it, or
\* the closed channel once the triggers sent before are received.
WorkerRecv ==
    /\ InCoalescer
    /\ io.pc \in {"recv", "timed"}
    /\ io.chan > 0 \/ ~io.open
    /\ io' = IF io.chan > 0
             THEN [io EXCEPT !.chan = @ - 1,
                             !.pc = "timed",
                             !.start = IF io.pc = "recv" THEN io.now ELSE @,
                             !.last = io.now]
             ELSE IF on_disconnected(io.pc).fire
             THEN [Fire(io, io.now) EXCEPT !.pc = "in_f"]
             ELSE [io EXCEPT !.pc = on_disconnected(io.pc).pc]
    /\ UNCHANGED manager_vars

\* The timed receive ends with no trigger: the sink is called.
WorkerTimeout ==
    /\ InCoalescer
    /\ io.pc = "timed"
    /\ io.chan = 0
    /\ io.open
    /\ io.now >= deadline(io.start, io.last, io.q, io.w)
    /\ io' = Fire(io, io.now)
    /\ UNCHANGED manager_vars

\* The sink (evaluate) returns; it stored what it found in the context.
SinkReturn ==
    /\ InCoalescer
    /\ io.running > 0
    /\ io' = [io EXCEPT !.running = @ - 1,
                        !.pc = IF @ = "in_f" THEN "recv" ELSE @,
                        !.uaf = @ \/ ~io.ctx]
    /\ UNCHANGED manager_vars

\* 10 ms pass. A worker that can receive or whose timed receive has ended runs first.
Tick ==
    /\ InCoalescer
    /\ io.now < io.horizon
    /\ ~(io.pc \in {"recv", "timed"} /\ (io.chan > 0 \/ ~io.open))
    /\ ~(io.pc = "timed" /\ io.now >= deadline(io.start, io.last, io.q, io.w))
    /\ io.mode = "burst" /\ io.left > 0 => io.sent
    /\ io' = [io EXCEPT !.now = @ + 1, !.sent = FALSE]
    /\ UNCHANGED manager_vars

\* The teardown cancels a notification; the cancel returns when its handler is not
\* running, and the handler is not called again. The burst test runs on a monitor
\* that lives to the end of the test.
CancelNotification(n) ==
    /\ InCoalescer
    /\ TeardownDue("cancel")
    /\ io.mode = "free"
    /\ io.notif[n] = "registered"
    /\ io' = [io EXCEPT !.notif[n] = "cancelled",
                        !.td = IF \A m \in Notifications \ {n} : io.notif[m] = "cancelled"
                               THEN @ + 1 ELSE @]
    /\ UNCHANGED manager_vars

\* The teardown drops the coalescer: the trigger channel closes.
DropCoalescer ==
    /\ InCoalescer
    /\ TeardownDue("coalescer")
    /\ io.open
    /\ io' = [io EXCEPT !.open = FALSE,
                        !.pending = io.chan > 0 \/ io.pc = "timed",
                        !.late = io.running > 0]
    /\ UNCHANGED manager_vars

\* The drop of the coalescer returns when its worker has exited.
CoalescerDropped ==
    /\ InCoalescer
    /\ TeardownDue("coalescer")
    /\ ~io.open
    /\ io.pc = "exited"
    /\ io.running = 0
    /\ io' = [io EXCEPT !.td = @ + 1]
    /\ UNCHANGED manager_vars

\* The teardown drops the context.
DropContext ==
    /\ InCoalescer
    /\ TeardownDue("context")
    /\ io.ctx
    /\ io' = [io EXCEPT !.ctx = FALSE, !.td = @ + 1]
    /\ UNCHANGED manager_vars

CoalNext ==
    \/ \E n \in Notifications :
          \/ HandlerEnter(n)
          \/ HandlerTrigger(n)
          \/ CancelNotification(n)
    \/ WorkerRecv
    \/ WorkerTimeout
    \/ SinkReturn
    \/ Tick
    \/ DropCoalescer
    \/ CoalescerDropped
    \/ DropContext

CoalSpec == CoalInit /\ [][CoalNext]_vars

\* The worker thread runs when it can, and a call of the sink returns.
CoalFairSpec == CoalSpec /\ WF_vars(WorkerRecv) /\ WF_vars(SinkReturn)

\* ------------------------------------------------------------------ properties

\* The table entries the manager wrote.
ManagerOwned(tbl) == {e \in tbl : e.tag = "mgr"}

\* The registered routes of a record list.
RegisteredRoutes(recs) == {recs[i].registered_route : i \in 1..Len(recs)}

\* C1: when add_routes returns an error, the record list and the table entries the
\* manager owns are what they were before the call.
C1_FailedBatchLeavesNoTrace ==
    \A u \in Users :
        usr[u].pc = "add_ret" =>
            /\ records = usr[u].pre_records
            /\ ManagerOwned(table) = ManagerOwned(usr[u].pre_table)

\* C2: the error add_routes returns is the error of the route that failed, whatever
\* the rollback met.
C2_OriginalErrorReturned ==
    \A u \in Users : usr[u].pc = "add_ret" => usr[u].ret = usr[u].error

\* C3: as long as no operation has failed, every record of the store has a table
\* entry with the interface, prefix and next hop of its registered route.
C3_RecordsHaveEntries ==
    ~hist.failed => \A rr \in RegisteredRoutes(records) : InTable(table, rr)

\* Records of two batches and a re-bound record, with no operation failed.
C3_Witness ==
    /\ ~hist.failed
    /\ hist.rebound
    /\ Len(records) >= 2
    /\ \A u \in Users : usr[u].pc = "idle"

C5_DefaultRecordsFollowBest ==
    <>[](hist.faults = 0 =>
            \A f \in Families :
                best[f] # NoBest =>
                    \A i \in 1..Len(records) :
                        (/\ records[i].route.node = DefaultNode
                         /\ ipnetwork_to_address_family(records[i].route.network) = f)
                        => /\ records[i].registered_route.luid = best[f].iface
                           /\ records[i].registered_route.next_hop = best[f].gateway)

\* The callbacks the registry holds.
Registered == {callbacks[id] : id \in DOMAIN callbacks}

\* The callbacks registered so far whose handle has been dropped.
Dropped == {c \in 1..hist.regs : \A h \in handles : h.callback # c}

\* C6: the handling of an event calls every callback of the registry exactly once, and
\* the handler changes neither the store nor the table before these calls are made.
C6_CallbacksOnceBeforeChanges ==
    [][\A f \in Families :
          /\ (mon[f].pc \in {"event", "dispatch"} /\ mon'[f] # mon[f])
                => (records' = records /\ table' = table)
          /\ (mon[f].pc = "dispatch" /\ mon'[f].pc # "dispatch")
                => /\ DOMAIN mon'[f].calls = Registered
                   /\ \A c \in Registered : mon'[f].calls[c] = 1
          /\ mon'[f].pc \in {"rebind", "rebinding"}
                => /\ mon[f].pc \in {"dispatch", "rebind", "rebinding"}
                   /\ \A c \in mon'[f].snap : mon'[f].calls[c] = 1]_vars

\* The callbacks are called and the handler is about to re-bind a record.
C6_Witness ==
    \E f \in Families :
        /\ mon[f].pc = "rebinding"
        /\ DOMAIN mon[f].calls # {}
        /\ \E i \in 1..Len(records) : is_affected(records[i], f)

\* C7: the handling of an UpdatedDetails or Removed event calls the callbacks and
\* returns: it changes no record and no table entry and does not reach the re-bind.
C7_OnlyUpdatedRebinds ==
    [][\A f \in Families :
          (/\ mon[f].event.type \in {"UpdatedDetails", "Removed"}
           /\ mon[f].pc \in {"event", "dispatch"}
           /\ mon'[f].pc # mon[f].pc)
          => /\ records' = records
             /\ table' = table
             /\ mon'[f].pc = IF mon[f].pc = "event" THEN "dispatch" ELSE "idle"
             /\ mon[f].pc = "dispatch" => DOMAIN mon'[f].calls = Registered]_vars

\* An UpdatedDetails event handled with a callback called and records in the store.
C7_Witness ==
    \E f \in Families :
        /\ mon[f].pc = "idle"
        /\ mon[f].event.type = "UpdatedDetails"
        /\ DOMAIN mon[f].calls # {}
        /\ \E i \in 1..Len(records) : is_affected(records[i], f)

\* C8: when delete_applied_routes returns, the store is empty and the result is Ok;
\* no record whose delete succeeded has a table entry, and the loop came to every record.
C8_ClearEmptiesStore ==
    \A u \in Users :
        usr[u].pc = "clear_ret" =>
            /\ records = <<>>
            /\ IsOk(usr[u].ret)
            /\ \A rr \in usr[u].deleted : ~InTable(table, rr)
            /\ usr[u].attempted = RegisteredRoutes(usr[u].pre_records)

\* A clear whose delete of one record failed and whose delete of a later record succeeded.
C8_Witness ==
    \E u \in Users :
        /\ usr[u].pc = "clear_ret"
        /\ \E i, j \in 1..Len(usr[u].pre_records) :
              /\ i < j
              /\ usr[u].pre_records[i].registered_route \notin usr[u].deleted
              /\ usr[u].pre_records[j].registered_route \in usr[u].deleted

C10_DispatchExcludesRegistration ==
    [][/\ \A f \in Families :
             (mon[f].pc = "dispatch" /\ mon'[f].pc # "dispatch")
                => DOMAIN mon'[f].calls = mon[f].snap
       /\ cbLock.holder \in Families => callbacks' = callbacks]_vars

\* A callback registered before an event is called for it; one registered after the
\* dispatch is not.
C10_Witness ==
    \E f \in Families :
        /\ mon[f].pc = "idle"
        /\ DOMAIN mon[f].calls # {}
        /\ \E h \in handles : h.callback \notin DOMAIN mon[f].calls

\* ------------------------------------------------------------------ C11

\* The thread inside a batch of add_routes, between taking the routes mutex and
\* dropping it.
InBatch(u) == usr[u].pc \in {"add_loop", "add_ret"}

\* The monitor inside the re-bind of default_route_change, holding the routes mutex.
InRebind(f) == mon[f].pc = "rebinding"

\* C11: a batch of add_routes and a re-bind of the monitor never interleave on the
\* store. Each runs with the routes mutex held by its own thread, so never both at
\* once; while a batch is running, the records and the table change only by steps of
\* that batch, and a re-bind starts and ends with no batch half done: it reads the
\* records of a batch all or not at all.
C11_BatchAndRebindSerialized ==
    [][\A u \in Users, f \in Families :
          /\ InBatch(u) => recLock.holder = u /\ ~InRebind(f)
          /\ InRebind(f) => recLock.holder = f
          /\ InBatch(u) /\ (records' # records \/ table' # table)
                => usr'[u] # usr[u] /\ mon' = mon
          /\ InRebind(f) /\ ~InRebind(f)'
                => usr' = usr /\ \A v \in Users : ~InBatch(v)
          /\ ~InRebind(f) /\ InRebind(f)' => \A v \in Users : ~InBatch(v)]_vars

\* A re-bind of family f waits for the routes mutex while a batch that has recorded
\* a Default route of f holds it.
C11_Witness ==
    \E u \in Users, f \in Families :
        /\ InBatch(u)
        /\ Len(usr[u].event_log) > 0
        /\ mon[f].pc = "rebind"
        /\ records # <<>>
        /\ records[1].route.node = DefaultNode
        /\ ipnetwork_to_address_family(records[1].route.network) = f

\* ------------------------------------------------------------------ C12

\* The monitor of family f is inside its event callback: dispatching or re-binding.
InCallback(f) == mon[f].pc \in {"event", "dispatch", "rebind", "rebinding"}

\* C12: on shutdown both monitors are torn down before the store is cleared. The step
\* that clears the store in the drop starts and ends with both monitors dropped, and
\* from then on no monitor callback starts or runs and no step changes the records
\* or the table.
C12_MonitorsDownBeforeClear ==
    [][/\ ~hist.cleared /\ hist'.cleared
            => \A f \in Families : mon[f].pc = "dropped" /\ mon'[f].pc = "dropped"
       /\ hist.cleared
            => /\ \A f \in Families : ~InCallback(f) /\ ~InCallback(f)'
               /\ records' = records
               /\ table' = table]_vars

\* The drop has cleared a store that held a record a monitor had re-bound, and the OS
\* has changed the best default since.
C12_Witness ==
    \E u \in Users :
        /\ usr[u].pc = "gone"
        /\ hist.cleared
        /\ hist.rebound
        /\ usr[u].pre_records # <<>>
        /\ records = <<>>
        /\ \A f \in Families : mon[f].pc = "dropped"

\* ------------------------------------------------------------------ C13

\* C13: a call through a RouteManagerHandle after the RouteManager was dropped returns
\* the HandleExpired error: the calling thread goes on, holds that error as the
\* call's result, and the records, the table and the registry are as before.
C13_ExpiredHandleReturnsError ==
    [][\A u \in Users :
          usr[u].pc = "gone" /\ usr'[u] # usr[u]
            => /\ usr'[u].pc = "gone"
               /\ usr'[u].ret = Err("HandleExpired", 0)
               /\ records' = records
               /\ table' = table
               /\ callbacks' = callbacks]_vars

\* ------------------------------------------------------------------ C14

\* C14: when a batch fails, add_routes of the facade returns the failure as an error
\* value after the rollback: the call that holds the Err of the internal add_routes
\* ends without a panic, so the facade mutex is released and not poisoned.
C14_FailedBatchReturnsError ==
    [][\A u \in Users :
          usr[u].pc = "add_ret" /\ usr'[u].pc # "add_ret"
            => facadeLock' = Release(facadeLock)]_vars

\* ------------------------------------------------------------------ C15

\* C15: after RouteManager::stop no default-route callback can be added: once stop
\* was called no step adds an entry to the callback registry.
C15_NoRegistrationAfterStop ==
    [][hist.stopped => DOMAIN callbacks' \subseteq DOMAIN callbacks]_vars

\* ------------------------------------------------------------------ C16

\* Row i of the table qualifies as a default route: prefix length 0, a gateway, a
\* physical interface, a connected interface.
Qualifies(tbl, ifaces, i) ==
    /\ tbl[i].prefix_len = 0
    /\ tbl[i].next_hop # "unspec"
    /\ ifaces[tbl[i].luid].if_type \notin {"IF_TYPE_SOFTWARE_LOOPBACK", "IF_TYPE_TUNNEL"}
    /\ ifaces[tbl[i].luid].if_entry = "NO_ERROR"
    /\ ~description_is_tunnel(ifaces[tbl[i].luid].description)
    /\ ifaces[tbl[i].luid].ip_interface = "NO_ERROR"
    /\ ifaces[tbl[i].luid].connected # 0

EffectiveMetric(tbl, i) == tbl[i].metric + InterfaceMetric(tbl[i].luid)

\* Row i is the first qualifying row with the smallest route metric + interface metric.
IsBestRow(tbl, ifaces, i) ==
    /\ Qualifies(tbl, ifaces, i)
    /\ \A j \in 1..Len(tbl) :
          Qualifies(tbl, ifaces, j)
            => \/ EffectiveMetric(tbl, i) < EffectiveMetric(tbl, j)
               \/ EffectiveMetric(tbl, i) = EffectiveMetric(tbl, j) /\ i <= j

\* C16: the selector returns the interface and next hop of the qualifying row with the
\* smallest route metric + interface metric, the first in OS order on a tie, and
\* returns no route exactly when no row qualifies.
C16_SelectorReturnsBestRow ==
    io.call = "get_best_default_internal" /\ io.done
      => /\ IsOk(io.result)
         /\ \A i \in 1..Len(io.table) :
               IsBestRow(io.table, io.ifaces, i)
                 => io.best = Some([iface |-> io.table[i].luid,
                                    gateway |-> io.table[i].next_hop])
         /\ io.best = None <=> \A i \in 1..Len(io.table) : ~Qualifies(io.table, io.ifaces, i)

\* ------------------------------------------------------------------ C17

\* Row i is a route to 0/0 with a gateway.
tbl_row_is_default(tbl, i) == tbl[i].prefix_len = 0 /\ tbl[i].next_hop # "unspec"

\* The lookup of the interface of row i fails: GetIfEntry2 or GetIpInterfaceEntry.
LookupFails(tbl, ifaces, i) ==
    \/ ifaces[tbl[i].luid].if_entry # "NO_ERROR"
    \/ ifaces[tbl[i].luid].ip_interface # "NO_ERROR"

\* C17: a failing interface lookup of one row drops only that row: with such a row in
\* the table and another row that qualifies, the selection succeeds and returns a row
\* that qualifies.
C17_FailedLookupDropsOnlyRow ==
    /\ io.call = "get_best_default_internal" /\ io.done
    /\ \E i \in 1..Len(io.table) :
          tbl_row_is_default(io.table, i) /\ LookupFails(io.table, io.ifaces, i)
    /\ \E j \in 1..Len(io.table) : Qualifies(io.table, io.ifaces, j)
    => /\ IsOk(io.result)
       /\ \E j \in 1..Len(io.table) :
             /\ Qualifies(io.table, io.ifaces, j)
             /\ io.best = Some([iface |-> io.table[j].luid,
                                gateway |-> io.table[j].next_hop])

\* ------------------------------------------------------------------ C18

\* The step is a run of evaluate() by the coalescer's worker of family f.
EvaluateStep(f) ==
    /\ mon[f].pc = "idle"
    /\ mon[f].pending
    /\ ~mon'[f].pending
    /\ mon'[f].pc \in {"idle", "event"}

\* After the step the monitor stores `last` and emits `event` (NoEvent: nothing).
Emits(f, last, event) ==
    /\ mon'[f].last = last
    /\ mon'[f].event = event
    /\ mon'[f].pc = IF event = NoEvent THEN "idle" ELSE "event"

\* C18: evaluate() clears the flag, reads the best default now and compares it with
\* the stored one: both absent, no event; stored absent and current present, stores
\* it and emits Updated(current); stored present and current absent, clears it and
\* emits Removed; both present and different, stores current and emits
\* Updated(current); both present and equal, emits UpdatedDetails(current) if the
\* flag was set and nothing otherwise.
C18_EvaluateCases ==
    [][\A f \in Families :
          EvaluateStep(f)
            => /\ ~mon'[f].flag
               /\ mon[f].last = NoBest /\ best[f] = NoBest
                    => Emits(f, NoBest, NoEvent)
               /\ mon[f].last = NoBest /\ best[f] # NoBest
                    => Emits(f, best[f], [type |-> "Updated", route |-> best[f]])
               /\ mon[f].last # NoBest /\ best[f] = NoBest
                    => Emits(f, NoBest, [type |-> "Removed", route |-> NoBest])
               /\ mon[f].last # NoBest /\ best[f] # NoBest /\ mon[f].last # best[f]
                    => Emits(f, best[f], [type |-> "Updated", route |-> best[f]])
               /\ mon[f].last # NoBest /\ mon[f].last = best[f] /\ mon[f].flag
                    => Emits(f, best[f], [type |-> "UpdatedDetails", route |-> best[f]])
               /\ mon[f].last # NoBest /\ mon[f].last = best[f] /\ ~mon[f].flag
                    => Emits(f, best[f], NoEvent)]_vars

\* evaluate() has emitted UpdatedDetails for a best default that did not change while
\* the flag was set, and has cleared the flag.
C18_Witness ==
    \E f \in Families :
        /\ mon[f].pc = "event"
        /\ mon[f].event.type = "UpdatedDetails"
        /\ mon[f].event.route = best[f]
        /\ ~mon[f].flag

\* ------------------------------------------------------------------ C19

\* C19: get_mtu_for_route(ip) returns the MTU of the interface of the best default
\* when there is a best default, its MTU was read and fits in 16 bits; in every other
\* case it returns the MTU error (GetMtu), never a truncated value.
C19_MtuOrUnavailable ==
    io.call = "get_mtu_for_route" /\ io.stage = "returned"
      => IF /\ IsOk(io.best_default.result)
            /\ io.best_default.best.some
            /\ io.entry_status = "NO_ERROR"
            /\ io.nl_mtu <= U16_MAX
         THEN io.result = Ok /\ io.mtu = Some(io.nl_mtu)
         ELSE io.result = Err("GetMtu", 0) /\ io.mtu = None

\* The call has returned the error for an MTU above 16 bits whose low 16 bits are an
\* ordinary MTU.
C19_Witness ==
    /\ io.call = "get_mtu_for_route"
    /\ io.stage = "returned"
    /\ io.best_default.best.some
    /\ io.entry_status = "NO_ERROR"
    /\ io.nl_mtu > U16_MAX
    /\ io.nl_mtu % (U16_MAX + 1) = 1500
    /\ io.result = Err("GetMtu", 0)

\* ------------------------------------------------------------------ C20

\* C20: parsing and formatting the `?` form is a bijection over the 64-bit values:
\* the parse of the form written for a LUID is that LUID, and two different names
\* that parse to a LUID never parse to the same one.
C20_LuidFormIsBijection ==
    io.call = "parse_string_encoded_luid" /\ Len(io.parsed) = 2
      => /\ io.parsed[1] = [result |-> Ok, some |-> TRUE, luid |-> io.luid]
         /\ io.parsed[2].some /\ io.encoded[1] # io.encoded[2]
              => io.parsed[2].luid # io.parsed[1].luid

\* ------------------------------------------------------------------ C21

\* The node the route of the call resolves to.
ResolvedNode ==
    resolve_node(ipnetwork_to_address_family(io.route.network), io.route.node,
                 io.best_default, io.reads)

\* The forwarding entry add_into_routing_table builds for the route of the call.
ResolvedEntry ==
    [network |-> io.route.network, luid |-> ResolvedNode.iface,
     next_hop |-> ResolvedNode.gateway]

\* C21: when the create reports "already exists" the entry is overwritten with a set
\* and the route succeeds if the set succeeds; a create that succeeds makes the
\* route succeed; every other status of the create or the set makes the route fail
\* with the write error that carries the OS status.
C21_AlreadyExistsOverwrites ==
    io.call = "add_into_routing_table" /\ io.done /\ IsOk(ResolvedNode.result)
      => /\ io.create_fault
              => io.result = Err("AddToRouteTable", "ERROR_ACCESS_DENIED")
                 /\ io.after = io.table
         /\ ~io.create_fault /\ ~InTable(io.table, ResolvedEntry)
              => /\ io.result = Ok
                 /\ io.registered_route = ResolvedEntry
                 /\ io.after = io.table \cup {[rr |-> ResolvedEntry, tag |-> "mgr"]}
         /\ ~io.create_fault /\ InTable(io.table, ResolvedEntry) /\ ~io.set_fault
              => /\ io.result = Ok
                 /\ io.registered_route = ResolvedEntry
                 /\ [rr |-> ResolvedEntry, tag |-> "mgr"] \in io.after
                 /\ \A e \in io.after : e.rr = ResolvedEntry => e.tag = "mgr"
         /\ ~io.create_fault /\ InTable(io.table, ResolvedEntry) /\ io.set_fault
              => io.result = Err("AddToRouteTable", "ERROR_ACCESS_DENIED")
                 /\ io.after = io.table

\* The route resolved to an entry the OS held as its own; the create reported that it
\* exists, the set succeeded and the route succeeded.
C21_Witness ==
    /\ io.call = "add_into_routing_table"
    /\ io.done
    /\ IsOk(ResolvedNode.result)
    /\ ~io.create_fault
    /\ [rr |-> ResolvedEntry, tag |-> "os"] \in io.table
    /\ io.result = Ok
    /\ [rr |-> ResolvedEntry, tag |-> "mgr"] \in io.after

\* ------------------------------------------------------------------ C22

C23_RollbackSkipsMissingRecord ==
    [][\A u \in Users :
           usr[u].pc = "add_loop" /\ usr'[u].pc # "add_loop" /\ hist'.failed
               => usr'[u].pc = "add_ret" /\ ~recLock'.poisoned]_vars

\* ------------------------------------------------------------------ C24

\* C24: no thread holds the callbacks mutex and the records mutex together: a thread
\* that takes the callbacks mutex does not hold the records mutex, and a monitor
\* has released the callbacks mutex before it takes the records mutex.
C24_CallbacksBeforeRecords ==
    [][/\ \A t \in Users \cup Families :
             /\ recLock'.holder = t => cbLock'.holder # t
             /\ recLock'.holder = t /\ recLock.holder # t => cbLock.holder # t
             /\ cbLock'.holder = t /\ cbLock.holder # t => recLock.holder # t
       /\ callbacks' # callbacks
             => \A u \in Users : usr'[u] # usr[u] => recLock.holder # u]_vars

\* A monitor re-binds under the records mutex after it dispatched to a registered
\* callback, while the other monitor holds the callbacks mutex.
C24_Witness ==
    \E f \in Families, g \in Families :
        /\ f # g
        /\ mon[f].pc = "rebinding"
        /\ recLock.holder = f
        /\ mon[f].calls # <<>>
        /\ cbLock.holder = g

\* ------------------------------------------------------------------ C25

\* C25: at most one call of the coalescer's sink is in progress at any time,
\* whatever the handlers trigger, also for the call of a later burst.
C25_SinkNeverConcurrent ==
    io.running <= 1

\* The sink runs for the second burst while a trigger sent during the call waits.
C25_Witness ==
    /\ io.running = 1
    /\ io.fired >= 2
    /\ io.chan > 0
    /\ io.pc = "in_f"

\* ------------------------------------------------------------------ C26

\* The span of the triggers sent so far.
TriggerSpan == io.last_trig - io.first_trig

\* Every trigger so far came less than Q after the one before, and the span of the
\* triggers plus Q is less than W.
ShortBurst ==
    /\ io.triggered
    /\ io.gaps_ok
    /\ TriggerSpan + io.q < io.w

\* C26: for a burst whose triggers are less than Q apart and whose span plus Q is
\* less than W, the sink is called exactly once, Q after the last trigger; for the
\* 50 triggers at 10 ms intervals with Q = 200 ms and W = 2 s that one call is
\* between 500 ms and 2.2 s after the first trigger.
C26_OneCallAfterQuiet ==
    ShortBurst =>
        /\ io.fired <= 1
        /\ io.fired = 1 => io.fire_at = io.last_trig + io.q
        /\ io.open /\ io.now > io.last_trig + io.q => io.fired = 1
        /\ io.mode = "burst" /\ io.left = 0 /\ io.fired = 1
              => /\ io.fire_at - io.first_trig >= BurstTriggers
                 /\ io.fire_at - io.first_trig <= MaximumWait + QuietWindow

\* The burst test at its end: all 50 triggers were sent 10 ms apart, and the sink
\* was called once, 690 ms after the first.
C26_Witness ==
    /\ io.mode = "burst"
    /\ io.left = 0
    /\ ShortBurst
    /\ TriggerSpan = BurstTriggers - 1
    /\ io.now = io.horizon
    /\ io.fired = 1
    /\ io.fire_at = io.first_trig + TriggerSpan + QuietWindow

\* ------------------------------------------------------------------ C27

\* The smallest integer that is not below a / b.
CeilDiv(a, b) == (a + b - 1) \div b

\* C27: the sink is called no later than W after the first trigger of the burst the
\* worker collects, and while the triggers keep coming less than Q apart it is
\* called at most ceil(S / W) + 1 times over a span S of triggers.
C27_CappedAtMaximumWait ==
    [][/\ io'.pc = "timed" => io'.now <= io'.start + io'.w
       /\ io'.fired > io.fired => io.pc = "timed" /\ io.now <= io.start + io.w
       /\ io'.triggered /\ io'.gaps_ok
             => io'.fired <= CeilDiv(io'.last_trig - io'.first_trig, io'.w) + 1]_vars

\* Triggers less than Q apart went on past W: the sink was called at the cap while
\* the quiet window was still open, and as often as the bound allows.
C27_Witness ==
    /\ io.triggered
    /\ io.gaps_ok
    /\ io.capped
    /\ TriggerSpan >= io.w
    /\ io.fired = CeilDiv(TriggerSpan, io.w) + 1

\* ------------------------------------------------------------------ C28

\* C28: once the trigger channel is closed no call of the sink starts, also when
\* triggers were waiting or a burst was being collected, and the worker exits.
C28_WorkerExitsOnClose ==
    /\ [][~io.open => io'.fired = io.fired]_vars
    /\ (~io.open ~> io.pc = "exited")

\* The channel closed on a worker that was collecting a burst: it exited, and the
\* sink was not called for that burst.
C28_Witness ==
    /\ ~io.open
    /\ io.pending
    /\ io.pc = "exited"
    /\ io.triggered
    /\ io.fired = 0

\* ------------------------------------------------------------------ C29

\* C29: the teardown cancels the three notifications, then drops the coalescer, then
\* drops the context, and no handler and no call of evaluate uses the context
\* after it was dropped.
C29_TeardownOrder ==
    /\ ~io.uaf
    /\ ~io.open => \A n \in Notifications : io.notif[n] = "cancelled"
    /\ ~io.ctx => /\ \A n \in Notifications : io.notif[n] = "cancelled"
                  /\ ~io.open
                  /\ io.pc = "exited"
                  /\ io.running = 0

\* The context was dropped after a teardown that met evaluate in progress when it
\* dropped the coalescer.
C29_Witness ==
    /\ ~io.ctx
    /\ io.late
    /\ io.fired >= 1
    /\ ~io.uaf

\* ------------------------------------------------------------------ C30

\* The record the batch of `u` logged last.
LastLogged(log) == log[Len(log)].record

\* The positions of `recs` whose registered route equals that of `record`.
SamePositions(recs, record) ==
    {i \in 1..Len(recs) : RegisteredRouteEq(recs[i].registered_route, record.registered_route)}

\* C30: a route that add_routes writes and whose registered route equals that of a
\* stored record takes the place of that record, and the number of records stays;
\* any other route is appended at the end; the other records keep their places.
C30_ReplaceInPlaceOrAppend ==
    [][\A u \in Users :
           /\ usr[u].pc = "add_loop"
           /\ usr'[u].pc = "add_loop"
           /\ Len(usr'[u].event_log) = Len(usr[u].event_log) + 1
           => IF SamePositions(records, LastLogged(usr'[u].event_log)) # {}
              THEN \E i \in SamePositions(records, LastLogged(usr'[u].event_log)) :
                      records' = [records EXCEPT ![i] = LastLogged(usr'[u].event_log)]
              ELSE records' = Append(records, LastLogged(usr'[u].event_log))]_vars

\* A batch wrote a route over the first of two stored records: the second record and
\* the number of records are what they were before the call.
C30_Witness ==
    \E u \in Users :
        /\ usr[u].pc = "add_loop"
        /\ Len(usr[u].event_log) = 1
        /\ Len(usr[u].pre_records) = 2
        /\ Len(records) = 2
        /\ records[1] = LastLogged(usr[u].event_log)
        /\ records[1] # usr[u].pre_records[1]
        /\ RegisteredRouteEq(records[1].registered_route,
                             usr[u].pre_records[1].registered_route)
        /\ records[2] = usr[u].pre_records[2]

\* ------------------------------------------------------------------ C31

\* The registered routes differ in the prefix, the interface or the next hop.
DiffersInAField(a, b) ==
    a.network # b.network \/ a.luid # b.luid \/ a.next_hop # b.next_hop

\* The positions of the stored list whose registered route differs from the new one.
OtherPositions ==
    {i \in 1..Len(io.records) : DiffersInAField(io.records[i].registered_route, io.new)}

C35_NoDuplicateRegisteredRoute ==
    io.call = "default_route_change" =>
        \A i \in 1..Len(io.records), j \in 1..Len(io.records) :
            i # j => ~RegisteredRouteEq(io.records[i].registered_route,
                                        io.records[j].registered_route)

\* ------------------------------------------------------------------ C32

\* The positions the last re-bind was about.
Affected == {i \in 1..Len(io.before) : is_affected(io.before[i], io.family)}

\* C32: a re-bind for a family leaves the records that are not by the default node
\* or not of the family as they were, with their table entries, and does not
\* change the number of records.
C32_RebindTouchesOnlyDefaultOfFamily ==
    io.call = "default_route_change" /\ io.n >= 1 =>
        /\ Len(io.records) = Len(io.before)
        /\ \A i \in (1..Len(io.before)) \ Affected :
               /\ io.records[i] = io.before[i]
               /\ \A e \in io.before_table :
                      e.rr = io.before[i].registered_route => e \in io.table

\* ------------------------------------------------------------------ C33

\* C33: a delete or a create that fails for one affected record does not end the
\* re-bind: every affected record whose delete succeeded is bound to the new
\* default route, also after a failure at an earlier record, with its entry in the
\* table unless its own create faulted; a record whose delete failed keeps its
\* registered route.
C33_RebindContinuesAfterFailure ==
    io.call = "default_route_change" /\ io.n >= 1 =>
        \A i \in Affected :
            IF i \in io.del_faulty
            THEN io.records[i] = io.before[i]
            ELSE /\ io.records[i].route = io.before[i].route
                 /\ io.records[i].registered_route
                        = bound_to(io.before[i].registered_route, io.route)
                 /\ i \notin io.add_faulty => InTable(io.table, io.records[i].registered_route)

\* The delete for the first of two affected records failed: it kept its registered
\* route, and the second was bound to the other interface.
C33_Witness ==
    /\ io.call = "default_route_change"
    /\ io.n >= 1
    /\ \E i \in Affected, j \in Affected :
          /\ i < j
          /\ i \in io.del_faulty
          /\ io.records[i] = io.before[i]
          /\ io.before[i].registered_route.luid # io.route.iface
          /\ io.records[j].registered_route.luid = io.route.iface
          /\ io.before[j].registered_route.luid # io.route.iface

\* ------------------------------------------------------------------ C34

\* The adapters of the enumeration that are enabled for the family of the gateway
\* and list it.
ListingAdapters ==
    {i \in 1..Len(io.adapters) :
        /\ io.status = "ERROR_SUCCESS"
        /\ adapter_interface_enabled(io.adapters[i], GatewayFamily(io.gateway))
        /\ \E j \in 1..Len(io.adapters[i].gateways) :
              io.adapters[i].gateways[j] = io.gateway}

\* C34: the lookup of a gateway returns the interface of an adapter that has the
\* lowest metric of the family among the enabled adapters listing the gateway, and
\* DeviceGatewayNotFound when no adapter matches or the enumeration reports no data.
C34_LowestMetricAdapterListingGateway ==
    (io.call = "interface_luid_from_gateway" /\ io.done
        /\ io.status \in {"ERROR_SUCCESS", "ERROR_NO_DATA"}) =>
        IF ListingAdapters = {}
        THEN io.result = Err("DeviceGatewayNotFound", "NO_ERROR")
        ELSE /\ IsOk(io.result)
             /\ \E i \in ListingAdapters :
                   /\ io.adapters[i].Luid = io.luid
                   /\ \A k \in ListingAdapters :
                         AdapterMetric(io.adapters[i], GatewayFamily(io.gateway))
                             <= AdapterMetric(io.adapters[k], GatewayFamily(io.gateway))

\* ------------------------------------------------------------------ C36

\* C36: the ids of the live handles are pairwise distinct, every live handle has
\* its own entry in the registry (a registration never replaces or removes it), and
\* the registry has as many entries as there are live handles, also after the
\* counter has wrapped.
C36_LiveHandlesKeepTheirEntries ==
    /\ \A h1 \in handles : \A h2 \in handles : h1 # h2 => h1.nonce # h2.nonce
    /\ \A h \in handles : h.nonce \in DOMAIN callbacks /\ callbacks[h.nonce] = h.callback
    /\ Cardinality(DOMAIN callbacks) = Cardinality(handles)

\* ------------------------------------------------------------------ C37

\* The mutex a thread is waiting for, by its position.
WaitedLock(t) ==
    IF t \in Users
    THEN IF usr[t].pc \in {"add_enter", "clear_enter"} THEN "records"
         ELSE IF usr[t].pc = "register_enter" THEN "callbacks" ELSE "none"
    ELSE IF t \in Families
    THEN IF mon[t].pc = "event" THEN "callbacks"
         ELSE IF mon[t].pc = "rebind" THEN "records" ELSE "none"
    ELSE "none"

\* The thread that holds the mutex t is waiting for, if any.
Blocker(t) ==
    IF WaitedLock(t) = "records" /\ Held(recLock) THEN recLock.holder
    ELSE IF WaitedLock(t) = "callbacks" /\ Held(cbLock) THEN cbLock.holder
    ELSE "none"

\* The threads wait for each other in a cycle through t.
InWaitCycle(t) ==
    \/ Blocker(t) = t
    \/ Blocker(Blocker(t)) = t
    \/ Blocker(Blocker(Blocker(t))) = t

\* A call of the caller thread, or a callback of the monitor, is under way.
Started(t) ==
    IF t \in Users THEN usr[t].pc \notin {"idle", "panicked"}
    ELSE mon[t].pc \notin {"idle", "panicked", "dropped"}

Emitted(f) == IF EvaluateStep(f) THEN mon'[f].event ELSE NoEvent

\* C38: in the events of one family, Removed is emitted only when a best default
\* was stored, and leaves none stored; while none is stored (at the start, or since
\* a Removed) the only event emitted is Updated, so that Removed never comes twice
\* in a row nor first from an absent start, and the event after a Removed is an
\* Updated; every Updated carries a best default different from the one stored just
\* before and stores it; UpdatedDetails is emitted only while a best default is
\* stored, carries exactly it and leaves it stored. The stored best default changes
\* in no other step.
C38_EventSequence ==
    [][\A f \in Families :
          /\ Emitted(f).type = "Removed"
                => mon[f].last # NoBest /\ mon'[f].last = NoBest
          /\ mon[f].last = NoBest /\ Emitted(f) # NoEvent
                => Emitted(f).type = "Updated"
          /\ Emitted(f).type = "Updated"
                => /\ Emitted(f).route # mon[f].last
                   /\ Emitted(f).route # NoBest
                   /\ mon'[f].last = Emitted(f).route
          /\ Emitted(f).type = "UpdatedDetails"
                => /\ mon[f].last # NoBest
                   /\ Emitted(f).route = mon[f].last
                   /\ mon'[f].last = mon[f].last
          /\ Emitted(f) = NoEvent => mon'[f].last = mon[f].last]_vars

\* The monitor has emitted Removed, stores no best default, and is about to evaluate
\* a best default that is present again.
C38_Witness ==
    \E f \in Families :
        /\ mon[f].event.type = "Removed"
        /\ mon[f].last = NoBest
        /\ mon[f].pc = "idle"
        /\ mon[f].pending
        /\ best[f] # NoBest

\* ------------------------------------------------------------------ C39

\* The entries the manager has written and not deleted that no record registers.
OrphanedEntries ==
    {e \in ManagerOwned(table) :
        \A i \in 1..Len(records) : ~RegisteredRouteEq(records[i].registered_route, e.rr)}

\* C39: as long as no OS delete call has failed, every entry of the table that the
\* manager wrote and has not deleted is the registered route of some record, after
\* any batches (successful or rolled back), re-binds and clears.
C39_NoOrphanedEntry ==
    ~hist.delete_failed => OrphanedEntries = {}

\* A batch was rolled back after an OS create call failed, a record has been
\* re-bound, and entries of the manager remain in the table.
C39_Witness ==
    /\ ~hist.delete_failed
    /\ hist.failed
    /\ hist.faults > 0
    /\ hist.rebound
    /\ ManagerOwned(table) # {}

====
